---- MODULE Spec2Model ----
(***************************************************************************)
(* A model of domwst/alpha-zero: the batch size controller                 *)
(* (executor_scope.rs), the batching network executor                      *)
(* (network_batched_executor.rs) and the Monte Carlo tree (mcts.rs).       *)
(*                                                                         *)
(* Three specifications share the module, one per component:               *)
(*   SpecBSM   BatchSizeManager, driven by arbitrary calls                  *)
(*   Spec      NetworkBatchedExecutor::serve, its handles and its           *)
(*             delivery tasks                                               *)
(*   SpecMcts  MonteCarloTree driven as generate_self_played_game does      *)
(* A specification leaves the variables of the other components at their   *)
(* initial (parked) value.                                                  *)
(***************************************************************************)
EXTENDS Integers, Sequences, FiniteSets, TLC

(***************************************************************************)
(* Option<T>: None is the empty sequence, Some(v) the one-element one.     *)
(***************************************************************************)
None == << >>

Some(v) == << v >>

IsSome(o) == o # None

Unwrap(o) == o[1]

Min(a, b) == IF a <= b THEN a ELSE b

Max(a, b) == IF a >= b THEN a ELSE b

(***************************************************************************)
(*                         BatchSizeManager                                *)
(***************************************************************************)

\* Largest max_batch_size the model constructs or sets.
MaxBatchSize == 12

\* Largest task count passed to on_task_count_change.
MaxTasksArg == 14

\* change_ratio = (5, 6), fixed by ExecutorScope::new.
RatioNum == 5

RatioDenom == 6

VARIABLES
    current_batch_size,   \* BatchSizeManager.current_batch_size
    max_batch_size,       \* BatchSizeManager.max_batch_size
    bsm_ret,              \* Option<usize> returned by the last call
    bsm_call              \* the last call: its name, argument and pre-state

bsmVars == << current_batch_size, max_batch_size, bsm_ret, bsm_call >>

\* upper_bound with the ceiling computed as (a + b) / b, which is one too
\* large whenever num divides current * denom.
upper_bound_floor_plus_one(cur, mx) == Min((cur * RatioDenom) \div RatioNum + 1, mx)

\* let upper_bound = ((current * denom - 1) / num + 1).min(max)
upper_bound(cur, mx) == Min((cur * RatioDenom - 1) \div RatioNum + 1, mx)

\* on_task_count_change shrinking without `.max(1)`.
on_task_count_change_without_floor(cur, mx, tasks) ==
    IF tasks >= upper_bound(cur, mx)
    THEN LET new_batch_size == Min(tasks, mx)
         IN  IF new_batch_size # cur
             THEN [current |-> new_batch_size, ret |-> Some(new_batch_size)]
             ELSE [current |-> cur, ret |-> None]
    ELSE IF tasks < cur
    THEN LET shrunk == (cur * RatioNum) \div RatioDenom
         IN  [current |-> shrunk, ret |-> Some(shrunk)]
    ELSE [current |-> cur, ret |-> None]

\* on_task_count_change shrinking also when tasks equals current.
on_task_count_change_shrinking_at_equal(cur, mx, tasks) ==
    IF tasks >= upper_bound(cur, mx)
    THEN LET new_batch_size == Min(tasks, mx)
         IN  IF new_batch_size # cur
             THEN [current |-> new_batch_size, ret |-> Some(new_batch_size)]
             ELSE [current |-> cur, ret |-> None]
    ELSE IF tasks <= cur
    THEN LET shrunk == Max((cur * RatioNum) \div RatioDenom, 1)
         IN  [current |-> shrunk, ret |-> Some(shrunk)]
    ELSE [current |-> cur, ret |-> None]

\* BatchSizeManager::on_task_count_change: the new current_batch_size and
\* the returned Option.
on_task_count_change(cur, mx, tasks) ==
    IF tasks >= upper_bound(cur, mx)
    THEN LET new_batch_size == Min(tasks, mx)
         IN  IF new_batch_size # cur
             THEN [current |-> new_batch_size, ret |-> Some(new_batch_size)]
             ELSE [current |-> cur, ret |-> None]
    ELSE IF tasks < cur
    THEN LET shrunk == Max((cur * RatioNum) \div RatioDenom, 1)
         IN  [current |-> shrunk, ret |-> Some(shrunk)]
    ELSE [current |-> cur, ret |-> None]

\* change_max_batch_size lowering current without returning it.
change_max_batch_size_silent(cur, new_max) ==
    IF cur > new_max
    THEN [current |-> new_max, max |-> new_max, ret |-> None]
    ELSE [current |-> cur, max |-> new_max, ret |-> None]

\* change_max_batch_size comparing with >= : it reports a change when
\* current already equals the new maximum.
change_max_batch_size_ge(cur, new_max) ==
    IF cur >= new_max
    THEN [current |-> new_max, max |-> new_max, ret |-> Some(new_max)]
    ELSE [current |-> cur, max |-> new_max, ret |-> None]

\* BatchSizeManager::change_max_batch_size
change_max_batch_size(cur, new_max) ==
    IF cur > new_max
    THEN [current |-> new_max, max |-> new_max, ret |-> Some(new_max)]
    ELSE [current |-> cur, max |-> new_max, ret |-> None]

\* BatchSizeManager::new(max_batch_size, (5, 6))
BatchSizeManager_new(mx) ==
    /\ max_batch_size = mx
    /\ current_batch_size = mx
    /\ bsm_ret = None
    /\ bsm_call = [name |-> "new", arg |-> mx, current |-> mx, max |-> mx]

InitBSM == \E mx \in 1..MaxBatchSize : BatchSizeManager_new(mx)

BsmOnTaskCountChange ==
    \E tasks \in 0..MaxTasksArg :
        LET r == on_task_count_change(current_batch_size, max_batch_size, tasks)
        IN  /\ current_batch_size' = r.current
            /\ bsm_ret' = r.ret
            /\ bsm_call' = [name |-> "on_task_count_change", arg |-> tasks,
                            current |-> current_batch_size, max |-> max_batch_size]
            /\ UNCHANGED max_batch_size

BsmChangeMaxBatchSize ==
    \E new_max \in 1..MaxBatchSize :
        LET r == change_max_batch_size(current_batch_size, new_max)
        IN  /\ current_batch_size' = r.current
            /\ max_batch_size' = r.max
            /\ bsm_ret' = r.ret
            /\ bsm_call' = [name |-> "change_max_batch_size", arg |-> new_max,
                            current |-> current_batch_size, max |-> max_batch_size]

(***************************************************************************)
(*              BatchSizeManager under a demand that stands                *)
(*                                                                         *)
(* After any calls of the two methods the task count stops changing: every *)
(* further on_task_count_change call is made with the same tasks.          *)
(***************************************************************************)

VARIABLES
    held    \* Some(tasks) once the task count stands at tasks

holdVars == << held >>

\* The task count changes still.
InitHold == held = None

\* on_task_count_change(tasks), tasks still changing.
VaryingCall ==
    /\ held = None
    /\ BsmOnTaskCountChange
    /\ UNCHANGED held

\* change_max_batch_size(new_max), before the task count stands.
VaryingMax ==
    /\ held = None
    /\ BsmChangeMaxBatchSize
    /\ UNCHANGED held

\* From here on the task count is tasks.
Hold(tasks) ==
    /\ held = None
    /\ held' = Some(tasks)
    /\ UNCHANGED bsmVars

\* on_task_count_change(tasks) with the task count that stands.
HeldCall ==
    /\ IsSome(held)
    /\ LET r == on_task_count_change(current_batch_size, max_batch_size, Unwrap(held))
       IN  /\ current_batch_size' = r.current
           /\ bsm_ret' = r.ret
           /\ bsm_call' = [name |-> "on_task_count_change", arg |-> Unwrap(held),
                           current |-> current_batch_size, max |-> max_batch_size]
    /\ UNCHANGED << max_batch_size, held >>

ParkedHold == held = None

(***************************************************************************)
(*                  Claims about BatchSizeManager                          *)
(***************************************************************************)

CeilDiv(a, b) == IF a % b = 0 THEN a \div b ELSE a \div b + 1

\* The rule as the design states it, with upper = min(max, ceil(current * denom / num)).
ReferenceRule(cur, mx, tasks) ==
    LET upper == Min(mx, CeilDiv(cur * RatioDenom, RatioNum))
    IN  IF tasks >= upper THEN Min(tasks, mx)
        ELSE IF tasks < cur THEN Max((cur * RatioNum) \div RatioDenom, 1)
        ELSE cur

\* C3: after on_task_count_change(tasks) from any state with current >= 1 and
\* max >= 1, current equals the reference rule (grow to min(tasks, max) when
\* tasks >= upper, else shrink to max(floor(current * 5 / 6), 1) when
\* tasks < current, else unchanged); with max = 100, current = 100, tasks = 80
\* the controller does not grow and shrinks to 83.
C3_MatchesReferenceRule ==
    /\ bsm_call.name = "on_task_count_change" =>
           /\ bsm_call.current >= 1
           /\ bsm_call.max >= 1
           /\ current_batch_size =
                  ReferenceRule(bsm_call.current, bsm_call.max, bsm_call.arg)
           /\ max_batch_size = bsm_call.max
    /\ on_task_count_change(100, 100, 80).current = 83

\* C3 witness: a call that grows exactly at the ceiling (current = 5, tasks = 6
\* = ceil(5 * 6 / 5)), and one state later the controller holds 6.
C3_Witness ==
    /\ bsm_call.name = "on_task_count_change"
    /\ bsm_call.current = 5
    /\ bsm_call.max > 6
    /\ bsm_call.arg = 6
    /\ current_batch_size = 6

\* C4: on_task_count_change returns a value only if current_batch_size after
\* the call differs from current_batch_size before it; a call that leaves
\* current unchanged returns None.
C4_ReturnsOnlyIfChanged ==
    bsm_call.name = "on_task_count_change" =>
        (IsSome(bsm_ret) => current_batch_size # bsm_call.current)

\* C5: change_max_batch_size(new_max) sets max to new_max; if current > new_max
\* it sets current to new_max and returns it, otherwise current is unchanged
\* and the call returns None.
C5_ChangeMax ==
    bsm_call.name = "change_max_batch_size" =>
        /\ max_batch_size = bsm_call.arg
        /\ IF bsm_call.current > bsm_call.arg
           THEN current_batch_size = bsm_call.arg /\ bsm_ret = Some(bsm_call.arg)
           ELSE current_batch_size = bsm_call.current /\ bsm_ret = None

\* C5 witness: the maximum was lowered below current, which followed it down.
C5_Witness ==
    /\ bsm_call.name = "change_max_batch_size"
    /\ bsm_call.current > bsm_call.arg
    /\ current_batch_size = bsm_call.arg
    /\ bsm_ret = Some(bsm_call.arg)

(***************************************************************************)
(*               MonteCarloTree and generate_self_played_game              *)
(*                                                                         *)
(* f32 values are modelled exactly: a value or score v is the integer      *)
(* v * ValueScale, a priority p is the integer p * PriorScale, and         *)
(* x -> 1.0 - x is x -> ValueScale - x.  Vec indices are 1-based here      *)
(* (node 1 is the node at index 0 of MonteCarloTree.nodes).                *)
(***************************************************************************)

\* Values are the multiples of 1 / ValueScale in [0, 1].
ValueScale == 2

\* Priorities are the multiples of 1 / PriorScale in [0, 1].
PriorScale == 2

\* Most legal moves of a game state, and the longest game, of the games tried.
MaxWidth == 2

MaxDepth == 2

\* Largest `samples` (the n of do_simulations) tried.
MaxSims == 3

\* The c_puct values tried, as <<numerator, denominator>>; main.rs passes 1/32.
CPuctChoices == { << 1, 32 >>, << 1, 1 >> }

VARIABLES
    game,          \* the Game implementation (TGame)
    net,           \* the network behind the executor handle (TNet, TAdapter)
    samples,       \* generate_self_played_game: samples
    cpuct,         \* generate_self_played_game: c_puct
    nodes,         \* MonteCarloTree.nodes
    state_stack,   \* do_simulations: state_stack
    cur,           \* do_simulations: cur
    value,         \* do_simulations: value
    sims_left,     \* do_simulations: iterations of 0..n still to run
    sim_state,     \* do_simulations: the state argument
    mpc,           \* where generate_self_played_game is
    state_id,      \* generate_self_played_game: state_id
    state,         \* generate_self_played_game: state
    policy,        \* generate_self_played_game: policy, Some(..) once computed
    requests,      \* executor.execute calls made by the tree
    status_calls,  \* per node, Game::get_state calls made by get_state closures
    sim_start,     \* nodes as they were when the current simulation started
    sim_path,      \* state_stack as it was when the simulation reached its leaf
    sim_expanded,  \* whether the current simulation filled a node_state
    sims_done,     \* simulations completed by the current do_simulations call
    call_fresh,    \* whether the node do_simulations was called on had no node_state
    call_requests, \* requests as it was when do_simulations was called
    sim_requests   \* requests as it was when the current simulation started

mctsVars == << game, net, samples, cpuct, nodes, state_stack, cur, value,
               sims_left, sim_state, mpc, state_id, state, policy, requests,
               status_calls, sim_start, sim_path, sim_expanded, sims_done,
               call_fresh, call_requests, sim_requests >>

\* The Game implementations tried: every state has `width` moves until
\* `depth` moves were made, where the game ends.
Games ==
    [ width : 1..MaxWidth, depth : 1..MaxDepth,
      switch : {"all", "none", "mixed"}, score : 0..ValueScale ]

\* The networks tried: a function of the game state, as forward_t is.
Nets == [ bias : 0..ValueScale, prior : {"uniform", "falling", "rising"} ]

RECURSIVE SumSeq(_)
SumSeq(q) == IF q = << >> THEN 0 ELSE q[1] + SumSeq(Tail(q))

\* MoveParameters::is_player_switch of move m made in game state gs
is_player_switch(g, gs, m) ==
    CASE g.switch = "all" -> TRUE
      [] g.switch = "none" -> FALSE
      [] OTHER -> (Len(gs) + m) % 2 = 1

\* Game::get_state: Terminal(value) or Moves(moves)
Game_get_state(g, gs) ==
    IF Len(gs) >= g.depth
    THEN [terminal |-> TRUE,
          value |-> (g.score + SumSeq(gs) - Len(gs)) % (ValueScale + 1),
          moves |-> << >>]
    ELSE [terminal |-> FALSE, value |-> 0,
          moves |-> [m \in 1..g.width |->
                        [id |-> m, player_switch |-> is_player_switch(g, gs, m)]]]

\* Game::make_move
Game_make_move(gs, move) == Append(gs, move.id)

\* f32::try_from(value) of executor.execute(convert_game_to_nn_input(state))
Net_value(nt, gs) == (nt.bias + SumSeq(gs)) % (ValueScale + 1)

\* TAdapter::get_estimated_policy(policy, &moves): one priority per move
Net_policy(nt, moves) ==
    [i \in 1..Len(moves) |->
        CASE nt.prior = "uniform" -> PriorScale
          [] nt.prior = "falling" -> Max(PriorScale - (i - 1), 0)
          [] OTHER -> Max(PriorScale - (Len(moves) - i), 0)]

node_state(i) == nodes[i].node_state

\* MonteCarloNode::get_state with its early return dropped: every visit
\* computes the state again.
has_no_state_unchecked(i) == TRUE

\* MonteCarloNode::get_state: `if self.node_state.is_some() { return None; }`
\* decides whether calc_state runs.
has_no_state(i) == ~IsSome(node_state(i))

\* The sign of x + y * sqrt(t) for rationals x = xn / xd, y = yn / yd
\* (xd, yd > 0) and a natural t.
SignSqrt(xn, xd, yn, yd, t) ==
    LET sx == IF xn > 0 THEN 1 ELSE IF xn < 0 THEN -1 ELSE 0
        sy == IF yn > 0 /\ t > 0 THEN 1 ELSE IF yn < 0 /\ t > 0 THEN -1 ELSE 0
        x2 == xn * xn * yd * yd
        y2 == yn * yn * t * xd * xd
    IN  IF sx >= 0 /\ sy >= 0 THEN (IF sx + sy > 0 THEN 1 ELSE 0)
        ELSE IF sx <= 0 /\ sy <= 0 THEN -1
        ELSE IF sx > 0 THEN (IF x2 > y2 THEN 1 ELSE IF x2 < y2 THEN -1 ELSE 0)
        ELSE (IF y2 > x2 THEN 1 ELSE IF y2 < x2 THEN -1 ELSE 0)

\* a.partial_cmp(b) for the scores of children i and j of node state st:
\* score = (descends != 0 ? total_score / descends : 0)
\*         + c * priority * sqrt(total_visits) / (1 + total_visits)
CompareScores(st, c, i, j) ==
    LET ch == st.children
        total_visits == SumSeq([k \in 1..Len(ch) |-> ch[k].descends])
        qn(k) == IF ch[k].descends # 0 THEN ch[k].total_score ELSE 0
        qd(k) == IF ch[k].descends # 0 THEN ch[k].descends * ValueScale ELSE 1
    IN  SignSqrt(qn(i) * qd(j) - qn(j) * qd(i), qd(i) * qd(j),
                 c[1] * (ch[i].priority - ch[j].priority),
                 c[2] * PriorScale * (1 + total_visits),
                 total_visits)

\* pick_next_move keeping the first of several equally maximal elements.
pick_next_move_first_max(st, c) ==
    CHOOSE i \in 1..Len(st.children) :
        /\ \A j \in 1..Len(st.children) : CompareScores(st, c, i, j) >= 0
        /\ \A j \in 1..(i - 1) : CompareScores(st, c, i, j) > 0

\* NodeState::pick_next_move: Iterator::max_by keeps the last of several
\* equally maximal elements.
pick_next_move(st, c) ==
    CHOOSE i \in 1..Len(st.children) :
        /\ \A j \in 1..Len(st.children) : CompareScores(st, c, i, j) >= 0
        /\ \A j \in (i + 1)..Len(st.children) : CompareScores(st, c, i, j) > 0

\* get_policy dividing by the visits of the node itself (its edges' visits
\* plus the visit that expanded it).
get_policy_counting_node(s) ==
    LET ch == Unwrap(node_state(s)).children
        sm == SumSeq([k \in 1..Len(ch) |-> ch[k].descends])
    IN  [k \in 1..Len(ch) |-> << ch[k].descends, sm + 1 >>]

\* MonteCarloTree::get_policy: descends / sm per child, as <<descends, sm>>
\* (sm = 0 gives 0.0 / 0.0, a NaN).
get_policy(s) ==
    LET ch == Unwrap(node_state(s)).children
        sm == SumSeq([k \in 1..Len(ch) |-> ch[k].descends])
    IN  [k \in 1..Len(ch) |-> << ch[k].descends, sm >>]

\* MonteCarloTree::get_next_state
get_next_state(s, move_id) == Unwrap(node_state(s)).children[move_id].node

\* generate_self_played_game up to its loop: MonteCarloTree::new(start, executor)
MonteCarloTree_new(g, nt, n, c) ==
    /\ game = g
    /\ net = nt
    /\ samples = n
    /\ cpuct = c
    /\ nodes = << [game_state |-> << >>, node_state |-> None] >>
    /\ state_stack = << >>
    /\ cur = 1
    /\ value = 0
    /\ sims_left = 0
    /\ sim_state = 1
    /\ mpc = "loop"
    /\ state_id = 1
    /\ state = << >>
    /\ policy = None
    /\ requests = 0
    /\ status_calls = << 0 >>
    /\ sim_start = nodes
    /\ sim_path = << >>
    /\ sim_expanded = FALSE
    /\ sims_done = 0
    /\ call_fresh = TRUE
    /\ call_requests = 0
    /\ sim_requests = 0

InitMcts ==
    \E g \in Games, nt \in Nets, n \in 1..MaxSims, c \in CPuctChoices :
        MonteCarloTree_new(g, nt, n, c)

\* BeginSimulation starting every iteration at node 0 of the Vec instead of
\* the state argument.
BeginSimulation_at_first_node(s) ==
    /\ cur' = 1
    /\ sim_start' = nodes
    /\ sim_requests' = requests
    /\ sim_path' = << >>
    /\ sim_expanded' = FALSE

\* The iteration of `for _ in 0..n` begins: let mut cur = state
BeginSimulation(s) ==
    /\ cur' = s
    /\ sim_start' = nodes
    /\ sim_requests' = requests
    /\ sim_path' = << >>
    /\ sim_expanded' = FALSE

\* generate_self_played_game: state.get_state() is Terminal, the loop breaks.
GameOver ==
    /\ mpc = "loop"
    /\ Game_get_state(game, state).terminal
    /\ mpc' = "game_over"
    /\ UNCHANGED << game, net, samples, cpuct, nodes, state_stack, cur, value,
                    sims_left, sim_state, state_id, state, policy, requests, call_requests,
                    status_calls, sim_start, sim_requests, sim_path, sim_expanded, sims_done, call_fresh >>

\* generate_self_played_game: state.get_state() is Moves; do_simulations(samples,
\* c_puct, state_id) is called and its first iteration begins.
DoSimulations ==
    /\ mpc = "loop"
    /\ ~Game_get_state(game, state).terminal
    /\ sims_left' = samples
    /\ sims_done' = 0
    /\ sim_state' = state_id
    /\ state_stack' = << >>
    /\ BeginSimulation(state_id)
    /\ mpc' = "sim"
    /\ call_fresh' = has_no_state(state_id)
    /\ call_requests' = requests
    /\ UNCHANGED << game, net, samples, cpuct, nodes, value, state_id, state,
                    policy, requests, status_calls >>

\* Descend without `state_stack.push((cur, m))`: the edge taken is not
\* backed up.
Descend_without_push ==
    /\ mpc = "sim"
    /\ ~has_no_state(cur)
    /\ ~Unwrap(node_state(cur)).is_terminal
    /\ LET st == Unwrap(node_state(cur))
           m == pick_next_move(st, cpuct)
       IN  /\ state_stack' = state_stack
           /\ cur' = st.children[m].node
    /\ UNCHANGED << game, net, samples, cpuct, nodes, value, sims_left,
                    sim_state, mpc, state_id, state, policy, requests, call_requests,
                    status_calls, sim_start, sim_requests, sim_path, sim_expanded, sims_done, call_fresh >>

\* One pass of the inner loop at a node whose node_state is already there and
\* not terminal: get_state returns None, pick_next_move, push, descend.
Descend ==
    /\ mpc = "sim"
    /\ ~has_no_state(cur)
    /\ ~Unwrap(node_state(cur)).is_terminal
    /\ LET st == Unwrap(node_state(cur))
           m == pick_next_move(st, cpuct)
       IN  /\ state_stack' = Append(state_stack, << cur, m >>)
           /\ cur' = st.children[m].node
    /\ UNCHANGED << game, net, samples, cpuct, nodes, value, sims_left,
                    sim_state, mpc, state_id, state, policy, requests, call_requests,
                    status_calls, sim_start, sim_requests, sim_path, sim_expanded, sims_done, call_fresh >>

\* One pass of the inner loop at a node whose node_state is already there and
\* terminal: get_state returns None, finish = is_terminal, break.
ReachTerminal ==
    /\ mpc = "sim"
    /\ ~has_no_state(cur)
    /\ Unwrap(node_state(cur)).is_terminal
    /\ value' = Unwrap(node_state(cur)).value
    /\ sim_path' = state_stack
    /\ mpc' = "unwind"
    /\ UNCHANGED << game, net, samples, cpuct, nodes, state_stack, cur,
                    sims_left, sim_state, state_id, state, policy, requests, call_requests,
                    status_calls, sim_start, sim_requests, sim_expanded, sims_done, call_fresh >>

\* ExpandTerminal calling execute before it looks at the game's status.
ExpandTerminal_requesting ==
    /\ mpc = "sim"
    /\ has_no_state(cur)
    /\ LET status == Game_get_state(game, nodes[cur].game_state)
       IN  /\ status.terminal
           /\ nodes' = [nodes EXCEPT ![cur].node_state =
                           Some([value |-> status.value, is_terminal |-> TRUE,
                                 children |-> << >>])]
           /\ value' = status.value
    /\ status_calls' = [status_calls EXCEPT ![cur] = @ + 1]
    /\ requests' = requests + 1
    /\ sim_path' = state_stack
    /\ sim_expanded' = TRUE
    /\ mpc' = "unwind"
    /\ UNCHANGED << call_requests, game, net, samples, cpuct, state_stack, cur,
                    sims_left,
                    sim_state, state_id, state, policy, sim_start, sim_requests,
                    sims_done, call_fresh >>

\* MonteCarloNode::get_state on a node without node_state whose game state is
\* terminal: the closure returns without calling execute; no node is pushed.
ExpandTerminal ==
    /\ mpc = "sim"
    /\ has_no_state(cur)
    /\ LET status == Game_get_state(game, nodes[cur].game_state)
       IN  /\ status.terminal
           /\ nodes' = [nodes EXCEPT ![cur].node_state =
                           Some([value |-> status.value, is_terminal |-> TRUE,
                                 children |-> << >>])]
           /\ value' = status.value
    /\ status_calls' = [status_calls EXCEPT ![cur] = @ + 1]
    /\ sim_path' = state_stack
    /\ sim_expanded' = TRUE
    /\ mpc' = "unwind"
    /\ UNCHANGED << game, net, samples, cpuct, state_stack, cur, sims_left,
                    sim_state, state_id, state, policy, requests, call_requests, sim_start, sim_requests,
                    sims_done, call_fresh >>

\* ExpandRequest calling execute once for the value and once for the policy.
ExpandRequest_value_then_policy ==
    /\ mpc = "sim"
    /\ has_no_state(cur)
    /\ ~Game_get_state(game, nodes[cur].game_state).terminal
    /\ status_calls' = [status_calls EXCEPT ![cur] = @ + 1]
    /\ requests' = requests + 2
    /\ mpc' = "await"
    /\ UNCHANGED << call_requests, game, net, samples, cpuct, nodes, state_stack,
                    cur, value, sims_left, sim_state, state_id, state, policy,
                    sim_start, sim_requests, sim_path, sim_expanded, sims_done,
                    call_fresh >>

\* MonteCarloNode::get_state on a node without node_state whose game state has
\* moves: the closure calls executor.execute and awaits the answer.
ExpandRequest ==
    /\ mpc = "sim"
    /\ has_no_state(cur)
    /\ ~Game_get_state(game, nodes[cur].game_state).terminal
    /\ status_calls' = [status_calls EXCEPT ![cur] = @ + 1]
    /\ requests' = requests + 1
    /\ mpc' = "await"
    /\ UNCHANGED << call_requests, game, net, samples, cpuct, nodes, state_stack,
                    cur, value,
                    sims_left, sim_state, state_id, state, policy, sim_start, sim_requests,
                    sim_path, sim_expanded, sims_done, call_fresh >>

\* NewChildren counting the children from the last node there was.
NewChildren_from_last_node(moves, pol, nodes_cnt) ==
    [i \in 1..Len(moves) |->
        [node |-> nodes_cnt + i - 1, priority |-> pol[i],
         player_switch |-> moves[i].player_switch,
         total_score |-> 0, descends |-> 0]]

\* The children of a freshly evaluated node: child i is node nodes_cnt + i.
NewChildren(moves, pol, nodes_cnt) ==
    [i \in 1..Len(moves) |->
        [node |-> nodes_cnt + i, priority |-> pol[i],
         player_switch |-> moves[i].player_switch,
         total_score |-> 0, descends |-> 0]]

\* ExecuteReturn without `finish = true`: the simulation goes on below the
\* node it has just expanded.
ExecuteReturn_descending ==
    /\ mpc = "await"
    /\ LET gs == nodes[cur].game_state
           moves == Game_get_state(game, gs).moves
           nodes_cnt == Len(nodes)
           v == Net_value(net, gs)
           pol == Net_policy(net, moves)
       IN  /\ nodes' = [nodes EXCEPT ![cur].node_state =
                           Some([value |-> v, is_terminal |-> FALSE,
                                 children |-> NewChildren(moves, pol, nodes_cnt)])]
                       \o [i \in 1..Len(moves) |->
                              [game_state |-> Game_make_move(gs, moves[i]),
                               node_state |-> None]]
           /\ status_calls' = status_calls \o [i \in 1..Len(moves) |-> 0]
           /\ value' = v
    /\ sim_expanded' = TRUE
    /\ mpc' = "sim"
    /\ UNCHANGED << game, net, samples, cpuct, state_stack, cur, sims_left,
                    sim_state, state_id, state, policy, requests, call_requests, sim_start, sim_requests,
                    sim_path, sims_done, call_fresh >>

\* execute returns (value, policy): node_state is set, one node per move is
\* pushed, finish = true, break.
ExecuteReturn ==
    /\ mpc = "await"
    /\ LET gs == nodes[cur].game_state
           moves == Game_get_state(game, gs).moves
           nodes_cnt == Len(nodes)
           v == Net_value(net, gs)
           pol == Net_policy(net, moves)
       IN  /\ nodes' = [nodes EXCEPT ![cur].node_state =
                           Some([value |-> v, is_terminal |-> FALSE,
                                 children |-> NewChildren(moves, pol, nodes_cnt)])]
                       \o [i \in 1..Len(moves) |->
                              [game_state |-> Game_make_move(gs, moves[i]),
                               node_state |-> None]]
           /\ status_calls' = status_calls \o [i \in 1..Len(moves) |-> 0]
           /\ value' = v
    /\ sim_path' = state_stack
    /\ sim_expanded' = TRUE
    /\ mpc' = "unwind"
    /\ UNCHANGED << game, net, samples, cpuct, state_stack, cur, sims_left,
                    sim_state, state_id, state, policy, requests, call_requests, sim_start, sim_requests,
                    sims_done, call_fresh >>

\* The backed-up value with the player_switch test left out.
BackedUpValue_ignoring_switch(v, player_switch) == v

\* if player_switch { value = 1.0 - value }
BackedUpValue(v, player_switch) == IF player_switch THEN ValueScale - v ELSE v

\* Backprop indexing the children by a constant instead of the popped move.
Backprop_first_child ==
    /\ mpc = "unwind"
    /\ state_stack # << >>
    /\ LET top == state_stack[Len(state_stack)]
           s == top[1]
           edge == Unwrap(node_state(s)).children[top[2]]
           v == BackedUpValue(value, edge.player_switch)
       IN  /\ value' = v
           /\ nodes' = [nodes EXCEPT ![s].node_state =
                  Some([Unwrap(@) EXCEPT !.children[1] =
                      [@ EXCEPT !.total_score = @ + v, !.descends = @ + 1]])]
    /\ state_stack' = SubSeq(state_stack, 1, Len(state_stack) - 1)
    /\ UNCHANGED << game, net, samples, cpuct, cur, sims_left, sim_state, mpc,
                    state_id, state, policy, requests, call_requests, status_calls, sim_start, sim_requests,
                    sim_path, sim_expanded, sims_done, call_fresh >>

\* One pass of `while let Some((state, move)) = state_stack.pop()`.
Backprop ==
    /\ mpc = "unwind"
    /\ state_stack # << >>
    /\ LET top == state_stack[Len(state_stack)]
           s == top[1]
           move == top[2]
           edge == Unwrap(node_state(s)).children[move]
           v == BackedUpValue(value, edge.player_switch)
       IN  /\ value' = v
           /\ nodes' = [nodes EXCEPT ![s].node_state =
                  Some([Unwrap(@) EXCEPT !.children[move] =
                      [@ EXCEPT !.total_score = @ + v, !.descends = @ + 1]])]
    /\ state_stack' = SubSeq(state_stack, 1, Len(state_stack) - 1)
    /\ UNCHANGED << game, net, samples, cpuct, cur, sims_left, sim_state, mpc,
                    state_id, state, policy, requests, call_requests, status_calls, sim_start, sim_requests,
                    sim_path, sim_expanded, sims_done, call_fresh >>

\* state_stack.pop() returned None: the iteration is over; the next one
\* begins, or do_simulations returns.
EndSimulation ==
    /\ mpc = "unwind"
    /\ state_stack = << >>
    /\ sims_left' = sims_left - 1
    /\ sims_done' = sims_done + 1
    /\ IF sims_left > 1
       THEN /\ BeginSimulation(sim_state)
            /\ mpc' = "sim"
       ELSE /\ mpc' = "simulated"
            /\ UNCHANGED << cur, sim_start, sim_requests, sim_path, sim_expanded >>
    /\ UNCHANGED << game, net, samples, cpuct, nodes, state_stack, value,
                    sim_state, state_id, state, policy, requests, call_requests, status_calls,
                    call_fresh >>

\* generate_self_played_game: let mut policy = tree.get_policy(state_id)
GetPolicy ==
    /\ mpc = "simulated"
    /\ policy' = Some(get_policy(state_id))
    /\ mpc' = "sampling"
    /\ UNCHANGED << game, net, samples, cpuct, nodes, state_stack, cur, value,
                    sims_left, sim_state, state_id, state, requests, call_requests,
                    status_calls, sim_start, sim_requests, sim_path, sim_expanded, sims_done, call_fresh >>

\* The moves WeightedIndex can sample: those of positive weight.  A policy of
\* NaNs has none: partial_cmp(..).unwrap() or WeightedIndex::new(..).unwrap()
\* panics.
Sampled(pol) == { i \in 1..Len(pol) : pol[i][2] > 0 /\ pol[i][1] > 0 }

\* GetNextState rebuilding the tree at the new position, as
\* MonteCarloTree::new(new_state, ..) would: the child starts unexpanded.
GetNextState_fresh_root ==
    /\ mpc = "sampling"
    /\ \E move \in Sampled(Unwrap(policy)) :
        /\ state' = Game_make_move(state, Game_get_state(game, state).moves[move])
        /\ state_id' = get_next_state(state_id, move)
        /\ nodes' = [nodes EXCEPT ![get_next_state(state_id, move)].node_state = None]
    /\ policy' = None
    /\ mpc' = "loop"
    /\ UNCHANGED << game, net, samples, cpuct, state_stack, cur, value,
                    sims_left, sim_state, requests, call_requests, status_calls, sim_start, sim_requests,
                    sim_path, sim_expanded, sims_done, call_fresh >>

\* generate_self_played_game: a move is sampled from the policy,
\* new_state = state.make_move(..), state_id = tree.get_next_state(state_id, move)
GetNextState ==
    /\ mpc = "sampling"
    /\ \E move \in Sampled(Unwrap(policy)) :
        /\ state' = Game_make_move(state, Game_get_state(game, state).moves[move])
        /\ state_id' = get_next_state(state_id, move)
    /\ policy' = None
    /\ mpc' = "loop"
    /\ UNCHANGED << game, net, samples, cpuct, nodes, state_stack, cur, value,
                    sims_left, sim_state, requests, call_requests, status_calls, sim_start, sim_requests,
                    sim_path, sim_expanded, sims_done, call_fresh >>

\* generate_self_played_game: no move can be sampled from the policy.
SamplePanic ==
    /\ mpc = "sampling"
    /\ Sampled(Unwrap(policy)) = { }
    /\ mpc' = "panicked"
    /\ UNCHANGED << game, net, samples, cpuct, nodes, state_stack, cur, value,
                    sims_left, sim_state, state_id, state, policy, requests, call_requests,
                    status_calls, sim_start, sim_requests, sim_path, sim_expanded, sims_done, call_fresh >>

(***************************************************************************)
(*            NetworkBatchedExecutor, its handles, its delivery tasks      *)
(*                                                                         *)
(* A tensor submitted by handle h in its k-th execute call is <<h, k>>.    *)
(* The accumulation time is batch_acc_time * 2^acc_exp.  The deadline of   *)
(* a window can elapse at any moment.                                      *)
(***************************************************************************)

\* Handles cloned from the scope's handle (one per spawned task).
NumHandles == 2

\* execute calls made in all, over every handle.
MaxCalls == 2

\* Largest batch size served or set by SetBatchSize.
MaxBatch == 3

\* Most consecutive doublings of the accumulation time followed.
MaxBackoff == 1

\* const MAX_PAR_RESPS: usize = 1;
MAX_PAR_RESPS == 1

Handles == 1..NumHandles

VARIABLES
    task_chan,       \* the unbounded channel behind task_sender / receiver
    result_chan,     \* per handle, the channel(1) behind result_sender / result_receiver
    cmd_chan,        \* the channel(1) behind executor_cmd / command_receiver
    scope_alive,     \* the scope still holds executor_handle and executor_cmd
    hstate,          \* per handle: "idle", "waiting" (in execute) or "dropped"
    hcalls,          \* per handle, execute calls made
    hresult,         \* per handle, what its last execute returned
    max_batch,       \* serve: max_batch
    acc_exp,         \* serve: acc_time = batch_acc_time * 2^acc_exp
    buf,             \* serve: buf
    spc,             \* where serve is
    response_tasks,  \* serve: response_tasks, the spawned delivery tasks
    invocations,     \* serve: invocations
    total_tensors,   \* serve: total_tensors
    batches,         \* the `inputs` of every forward_t call so far
    submitted,       \* every tensor sent so far, in sending order
    closed_by,       \* how the current batch was closed
    partial_closed,  \* a deadline has closed a non-empty batch
    cmd_seen,        \* serve has consumed a SetBatchSize
    recvs            \* recv_many calls that filled the latest batch

schedVars == << task_chan, result_chan, cmd_chan, scope_alive, hstate, hcalls,
                hresult, max_batch, acc_exp, buf, spc, response_tasks,
                invocations, total_tensors, batches, submitted, closed_by,
                partial_closed, cmd_seen, recvs >>

Reverse(q) == [i \in 1..Len(q) |-> q[Len(q) + 1 - i]]

\* The rows of the forward_t output for one input row each.
NetOut(inp) == << "value_policy_of", inp >>

\* nn.forward_t(&Tensor::stack(&inputs, 0), false): row i is computed from
\* input row i.
forward_t(inputs) == [i \in 1..Len(inputs) |-> NetOut(inputs[i])]

\* `inputs` after `while let Some((inp, send)) = buf.pop()`
BatchInputs(b) == [i \in 1..Len(b) |-> Reverse(b)[i].inp]

\* `responses` collected front to back while the inputs are popped.
BatchResponses_front_to_back(b) == [i \in 1..Len(b) |-> b[i].send]

\* `responses` after `while let Some((inp, send)) = buf.pop()`
BatchResponses(b) == [i \in 1..Len(b) |-> Reverse(b)[i].send]

\* `if buf.len() > max_batch`
BatchFull_gt(len, mb) == len > mb

\* `if buf.len() >= max_batch { break; }`
BatchFull(len, mb) == len >= mb

\* recv_many with a limit one above the room left in the batch.
RecvLimit_one_more(mb, cur_len) == mb - cur_len + 1

\* receiver.recv_many(&mut buf, max_batch - cur_len)
RecvLimit(mb, cur_len) == mb - cur_len

\* Senders of the task channel still alive: the scope's handle and the
\* handles of the tasks (serve drops its own at once).
LiveTaskSenders ==
    (IF scope_alive THEN 1 ELSE 0) + Cardinality({ h \in Handles : hstate[h] # "dropped" })

\* The fields NetworkBatchedExecutor::new, mint_handle and the locals of
\* serve(mb, ..) start with, serve standing at pc.
SchedFields(mb, pc) ==
    /\ task_chan = << >>
    /\ result_chan = [h \in Handles |-> << >>]
    /\ cmd_chan = << >>
    /\ scope_alive = TRUE
    /\ hstate = [h \in Handles |-> "idle"]
    /\ hcalls = [h \in Handles |-> 0]
    /\ hresult = [h \in Handles |-> None]
    /\ max_batch = mb
    /\ acc_exp = 0
    /\ buf = << >>
    /\ spc = pc
    /\ response_tasks = << >>
    /\ invocations = 0
    /\ total_tensors = 0
    /\ batches = << >>
    /\ submitted = << >>
    /\ closed_by = "none"
    /\ partial_closed = FALSE
    /\ cmd_seen = FALSE
    /\ recvs = 0

\* NetworkBatchedExecutor::new, mint_handle, ExecutorScope::new spawning
\* serve(mb, ..), and one clone of the handle per task; serve has passed
\* `assert!(max_batch > 0)` and stands at its select.
NetworkBatchedExecutor_new(mb) == SchedFields(mb, "select")

InitSched == \E mb \in 1..MaxBatch : NetworkBatchedExecutor_new(mb)

\* Execute with the handle calling the network itself instead of sending.
Execute_calling_forward(h) ==
    /\ hstate[h] = "idle"
    /\ Len(submitted) < MaxCalls
    /\ LET task == << h, hcalls[h] + 1 >>
       IN  /\ batches' = Append(batches, << task >>)
           /\ hresult' = [hresult EXCEPT ![h] = Some(NetOut(task))]
           /\ submitted' = Append(submitted, task)
    /\ hcalls' = [hcalls EXCEPT ![h] = @ + 1]
    /\ invocations' = invocations + 1
    /\ UNCHANGED << task_chan, result_chan, cmd_chan, scope_alive, hstate,
                    max_batch, acc_exp, buf, spc, response_tasks,
                    total_tensors, closed_by, partial_closed, cmd_seen, recvs >>

\* Execute on a handle shared by two callers: a second task is sent while
\* the answer to the first is awaited.
Execute_on_shared_handle(h) ==
    /\ hstate[h] \in { "idle", "waiting" }
    /\ Len(submitted) < MaxCalls
    /\ LET task == << h, hcalls[h] + 1 >>
       IN  /\ task_chan' = Append(task_chan, [inp |-> task, send |-> h])
           /\ submitted' = Append(submitted, task)
    /\ hcalls' = [hcalls EXCEPT ![h] = @ + 1]
    /\ hstate' = [hstate EXCEPT ![h] = "waiting"]
    /\ UNCHANGED << result_chan, cmd_chan, scope_alive, hresult, max_batch,
                    acc_exp, buf, spc, response_tasks, invocations,
                    total_tensors, batches, closed_by, partial_closed,
                    cmd_seen, recvs >>

\* NetworkBatchedExecutorHandle::execute up to its await: the task is sent.
Execute(h) ==
    /\ hstate[h] = "idle"
    /\ Len(submitted) < MaxCalls
    /\ LET task == << h, hcalls[h] + 1 >>
       IN  /\ task_chan' = Append(task_chan, [inp |-> task, send |-> h])
           /\ submitted' = Append(submitted, task)
    /\ hcalls' = [hcalls EXCEPT ![h] = @ + 1]
    /\ hstate' = [hstate EXCEPT ![h] = "waiting"]
    /\ UNCHANGED << result_chan, cmd_chan, scope_alive, hresult, max_batch,
                    acc_exp, buf, spc, response_tasks, invocations,
                    total_tensors, batches, closed_by, partial_closed, cmd_seen,
                    recvs >>

\* NetworkBatchedExecutorHandle::execute: result_receiver.recv() returns.
Receive(h) ==
    /\ hstate[h] = "waiting"
    /\ result_chan[h] # << >>
    /\ hresult' = [hresult EXCEPT ![h] = Some(Head(result_chan[h]))]
    /\ result_chan' = [result_chan EXCEPT ![h] = Tail(@)]
    /\ hstate' = [hstate EXCEPT ![h] = "idle"]
    /\ UNCHANGED << task_chan, cmd_chan, scope_alive, hcalls, max_batch, acc_exp,
                    buf, spc, response_tasks, invocations, total_tensors,
                    batches, submitted, closed_by, partial_closed, cmd_seen,
                    recvs >>

\* The task owning handle h ends: the handle is dropped.
DropHandle(h) ==
    /\ hstate[h] = "idle"
    /\ hstate' = [hstate EXCEPT ![h] = "dropped"]
    /\ UNCHANGED << task_chan, result_chan, cmd_chan, scope_alive, hcalls,
                    hresult, max_batch, acc_exp, buf, spc, response_tasks,
                    invocations, total_tensors, batches, submitted, closed_by,
                    partial_closed, cmd_seen,
                    recvs >>

\* ExecutorScope sends BatcherCommand::SetBatchSize(s) (the channel has room).
SendSetBatchSize(s) ==
    /\ scope_alive
    /\ cmd_chan = << >>
    /\ cmd_chan' = << s >>
    /\ UNCHANGED << task_chan, result_chan, scope_alive, hstate, hcalls, hresult,
                    max_batch, acc_exp, buf, spc, response_tasks, invocations,
                    total_tensors, batches, submitted, closed_by,
                    partial_closed, cmd_seen,
                    recvs >>

\* ExecutorScope::join with no task left: drop((executor_handle, executor_cmd)).
ScopeJoin ==
    /\ scope_alive
    /\ \A h \in Handles : hstate[h] = "dropped"
    /\ scope_alive' = FALSE
    /\ UNCHANGED << task_chan, result_chan, cmd_chan, hstate, hcalls, hresult,
                    max_batch, acc_exp, buf, spc, response_tasks, invocations,
                    total_tensors, batches, submitted, closed_by,
                    partial_closed, cmd_seen,
                    recvs >>
\* SelectDeadline with a deadline that is armed only while buf is empty: a
\* batch that is not full is never closed.
SelectDeadline_only_when_empty ==
    /\ spc = "select"
    /\ buf = << >>
    /\ acc_exp < MaxBackoff
    /\ spc' = "closed"
    /\ closed_by' = "deadline"
    /\ partial_closed' = partial_closed
    /\ UNCHANGED << task_chan, result_chan, cmd_chan, scope_alive, hstate, hcalls,
                    hresult, max_batch, acc_exp, buf, response_tasks,
                    invocations, total_tensors, batches, submitted, cmd_seen,
                    recvs >>

\* select!: `() = &mut deadline => break`
SelectDeadline ==
    /\ spc = "select"
    /\ buf = << >> => acc_exp < MaxBackoff
    /\ spc' = "closed"
    /\ closed_by' = "deadline"
    /\ partial_closed' = (partial_closed \/ buf # << >>)
    /\ UNCHANGED << task_chan, result_chan, cmd_chan, scope_alive, hstate, hcalls,
                    hresult, max_batch, acc_exp, buf, response_tasks,
                    invocations, total_tensors, batches, submitted, cmd_seen,
                    recvs >>

\* select!: `p = receiver.recv_many(&mut buf, max_batch - cur_len)` with
\* p > 0, then `if buf.len() >= max_batch { break; }`
SelectRecv ==
    /\ spc = "select"
    /\ task_chan # << >>
    /\ RecvLimit(max_batch, Len(buf)) > 0
    /\ LET p == Min(Len(task_chan), RecvLimit(max_batch, Len(buf)))
       IN  /\ buf' = buf \o SubSeq(task_chan, 1, p)
           /\ task_chan' = SubSeq(task_chan, p + 1, Len(task_chan))
    /\ recvs' = IF buf = << >> THEN 1 ELSE recvs + 1
    /\ IF BatchFull(Len(buf'), max_batch)
       THEN spc' = "closed" /\ closed_by' = "size"
       ELSE UNCHANGED << spc, closed_by >>
    /\ UNCHANGED << result_chan, cmd_chan, scope_alive, hstate, hcalls, hresult,
                    max_batch, acc_exp, response_tasks, invocations,
                    total_tensors, batches, submitted, partial_closed, cmd_seen >>

\* SelectRecvClosed taking an empty channel for a closed one: recv_many
\* returning 0 although senders are left.
SelectRecvClosed_on_empty_channel ==
    /\ spc = "select"
    /\ task_chan = << >>
    /\ spc' = IF buf = << >> THEN "drain" ELSE "panicked"
    /\ UNCHANGED << task_chan, result_chan, cmd_chan, scope_alive, hstate, hcalls,
                    hresult, max_batch, acc_exp, buf, response_tasks,
                    invocations, total_tensors, batches, submitted, closed_by,
                    partial_closed, cmd_seen, recvs >>

\* select!: recv_many returns 0, the channel being empty with no sender left:
\* `assert!(buf.is_empty()); break 'main;`
SelectRecvClosed ==
    /\ spc = "select"
    /\ task_chan = << >>
    /\ LiveTaskSenders = 0
    /\ spc' = IF buf = << >> THEN "drain" ELSE "panicked"
    /\ UNCHANGED << task_chan, result_chan, cmd_chan, scope_alive, hstate, hcalls,
                    hresult, max_batch, acc_exp, buf, response_tasks,
                    invocations, total_tensors, batches, submitted, closed_by,
                    partial_closed, cmd_seen,
                    recvs >>

\* SelectCmd without the size test after the select: the new max_batch
\* is looked at only after the next receive.
SelectCmd_size_not_retested ==
    /\ spc = "select"
    /\ cmd_chan # << >>
    /\ max_batch' = Head(cmd_chan)
    /\ cmd_chan' = Tail(cmd_chan)
    /\ cmd_seen' = TRUE
    /\ UNCHANGED << task_chan, result_chan, scope_alive, hstate, hcalls, hresult,
                    acc_exp, buf, spc, closed_by, response_tasks, invocations,
                    total_tensors, batches, submitted, partial_closed, recvs >>

\* select!: `cmd = command_receiver.recv()` yields Some(SetBatchSize(s)):
\* `max_batch = s`, then `if buf.len() >= max_batch { break; }`
SelectCmd ==
    /\ spc = "select"
    /\ cmd_chan # << >>
    /\ max_batch' = Head(cmd_chan)
    /\ cmd_chan' = Tail(cmd_chan)
    /\ cmd_seen' = TRUE
    /\ IF BatchFull(Len(buf), max_batch')
       THEN spc' = "closed" /\ closed_by' = "size"
       ELSE UNCHANGED << spc, closed_by >>
    /\ UNCHANGED << task_chan, result_chan, scope_alive, hstate, hcalls, hresult,
                    acc_exp, buf, response_tasks, invocations, total_tensors,
                    batches, submitted, partial_closed, recvs >>

\* select!: command_receiver.recv() yields None (the sender is dropped):
\* `continue`
SelectCmdClosed ==
    /\ spc = "select"
    /\ cmd_chan = << >>
    /\ ~scope_alive
    /\ UNCHANGED schedVars

\* CloseBatch without `acc_time = batch_acc_time`: a non-empty batch leaves
\* the accumulation time doubled.
CloseBatch_acc_time_kept ==
    /\ spc = "closed"
    /\ IF buf = << >>
       THEN /\ acc_exp' = acc_exp + 1
            /\ spc' = "select"
            /\ UNCHANGED << response_tasks, invocations, total_tensors, batches >>
       ELSE /\ acc_exp' = acc_exp
            /\ response_tasks' =
                   Append(response_tasks,
                          [responses |-> BatchResponses(buf),
                           values |-> forward_t(BatchInputs(buf)),
                           i |-> 1, status |-> "running"])
            /\ batches' = Append(batches, BatchInputs(buf))
            /\ invocations' = invocations + 1
            /\ total_tensors' = total_tensors + Len(buf)
            /\ spc' = IF Len(response_tasks') > MAX_PAR_RESPS
                      THEN "wait_resp" ELSE "select"
    /\ buf' = << >>
    /\ UNCHANGED << task_chan, result_chan, cmd_chan, scope_alive, hstate, hcalls,
                    hresult, max_batch, submitted, closed_by, partial_closed,
                    cmd_seen, recvs >>

\* CloseBatch without the `while response_tasks.len() > MAX_PAR_RESPS` loop.
CloseBatch_unbounded_deliveries ==
    /\ spc = "closed"
    /\ IF buf = << >>
       THEN /\ acc_exp' = acc_exp + 1
            /\ spc' = "select"
            /\ UNCHANGED << response_tasks, invocations, total_tensors, batches >>
       ELSE /\ acc_exp' = 0
            /\ response_tasks' =
                   Append(response_tasks,
                          [responses |-> BatchResponses(buf),
                           values |-> forward_t(BatchInputs(buf)),
                           i |-> 1, status |-> "running"])
            /\ batches' = Append(batches, BatchInputs(buf))
            /\ invocations' = invocations + 1
            /\ total_tensors' = total_tensors + Len(buf)
            /\ spc' = "select"
    /\ buf' = << >>
    /\ UNCHANGED << task_chan, result_chan, cmd_chan, scope_alive, hstate, hcalls,
                    hresult, max_batch, submitted, closed_by, partial_closed,
                    cmd_seen, recvs >>

\* The batch is closed: an empty one doubles acc_time and the next window
\* opens; otherwise acc_time is reset, forward_t runs on the popped inputs,
\* the delivery task is spawned and, with more than MAX_PAR_RESPS of them
\* unfinished, serve awaits one.
CloseBatch ==
    /\ spc = "closed"
    /\ IF buf = << >>
       THEN /\ acc_exp' = acc_exp + 1
            /\ spc' = "select"
            /\ UNCHANGED << response_tasks, invocations, total_tensors, batches >>
       ELSE /\ acc_exp' = 0
            /\ response_tasks' =
                   Append(response_tasks,
                          [responses |-> BatchResponses(buf),
                           values |-> forward_t(BatchInputs(buf)),
                           i |-> 1, status |-> "running"])
            /\ batches' = Append(batches, BatchInputs(buf))
            /\ invocations' = invocations + 1
            /\ total_tensors' = total_tensors + Len(buf)
            /\ spc' = IF Len(response_tasks') > MAX_PAR_RESPS
                      THEN "wait_resp" ELSE "select"
    /\ buf' = << >>
    /\ UNCHANGED << task_chan, result_chan, cmd_chan, scope_alive, hstate, hcalls,
                    hresult, max_batch, submitted, closed_by, partial_closed,
                    cmd_seen, recvs >>

RemoveAt(q, t) == SubSeq(q, 1, t - 1) \o SubSeq(q, t + 1, Len(q))

\* `while response_tasks.len() > MAX_PAR_RESPS { response_tasks.next().await; }`
\* one completed task is taken out, whatever its outcome.
WaitResponse ==
    /\ spc = "wait_resp"
    /\ \E t \in 1..Len(response_tasks) :
        /\ response_tasks[t].status \in {"finished", "panicked"}
        /\ response_tasks' = RemoveAt(response_tasks, t)
    /\ spc' = IF Len(response_tasks') > MAX_PAR_RESPS THEN "wait_resp" ELSE "select"
    /\ UNCHANGED << task_chan, result_chan, cmd_chan, scope_alive, hstate, hcalls,
                    hresult, max_batch, acc_exp, buf, invocations, total_tensors,
                    batches, submitted, closed_by, partial_closed, cmd_seen,
                    recvs >>

\* `while let Some(_) = response_tasks.next().await {}`: one completed
\* task is taken out, whatever its outcome.
DrainResponse ==
    /\ spc = "drain"
    /\ \E t \in 1..Len(response_tasks) :
        /\ response_tasks[t].status \in {"finished", "panicked"}
        /\ response_tasks' = RemoveAt(response_tasks, t)
    /\ UNCHANGED << task_chan, result_chan, cmd_chan, scope_alive, hstate, hcalls,
                    hresult, max_batch, acc_exp, buf, spc, invocations,
                    total_tensors, batches, submitted, closed_by,
                    partial_closed, cmd_seen,
                    recvs >>

\* response_tasks.next() yields None: serve returns nn.
ServeReturn ==
    /\ spc = "drain"
    /\ response_tasks = << >>
    /\ spc' = "done"
    /\ UNCHANGED << task_chan, result_chan, cmd_chan, scope_alive, hstate, hcalls,
                    hresult, max_batch, acc_exp, buf, response_tasks,
                    invocations, total_tensors, batches, submitted, closed_by,
                    partial_closed, cmd_seen,
                    recvs >>

\* A delivery task: `resp.send((values.get(i), policies.get(i))).await` for
\* the next i, once the handle's channel(1) has room.
Deliver(t) ==
    /\ t \in 1..Len(response_tasks)
    /\ response_tasks[t].status = "running"
    /\ LET task == response_tasks[t]
           h == task.responses[task.i]
       IN  /\ Len(result_chan[h]) < 1
           /\ result_chan' = [result_chan EXCEPT ![h] = Append(@, task.values[task.i])]
           /\ response_tasks' = [response_tasks EXCEPT ![t] =
                  [@ EXCEPT !.i = @ + 1,
                            !.status = IF task.i = Len(task.responses)
                                       THEN "finished" ELSE "running"]]
    /\ UNCHANGED << task_chan, cmd_chan, scope_alive, hstate, hcalls, hresult,
                    max_batch, acc_exp, buf, spc, invocations, total_tensors,
                    batches, submitted, closed_by, partial_closed, cmd_seen,
                    recvs >>

(***************************************************************************)
(*                            ExecutorScope                                *)
(*                                                                         *)
(* The scope's batch_size_manager is the BatchSizeManager above.  A task   *)
(* is the future spawn wraps: it acquires a permit, runs, and releases the *)
(* permit when it ends; results holds its JoinHandle until next yields it. *)
(***************************************************************************)

\* Tasks spawned on a scope.
MaxTasks == 3

\* Largest permit total, and largest batch size given to ExecutorScope::new.
MaxTokens == 3

MaxScopeBatch == 3

\* Calls of spawn, increase_parallelism and next followed.
MaxOps == 6

Tasks == 1..MaxTasks

VARIABLES
    tstate,              \* per task: "none", "queued" (awaiting par.acquire()),
                         \* "running", "finished" or "panicked" (JoinHandle
                         \* ready), "taken"
    permits,             \* permits available in the semaphore `parallelism`
    parallelism_tokens,  \* ExecutorScope.parallelism_tokens
    executor_cmd,        \* the channel(1) behind ExecutorScope.executor_cmd
    last_op,             \* the last call on the scope and what it returned
    ops,                 \* calls on the scope so far
    initial_parallelism, \* the parallelism given to ExecutorScope::new
    deltas               \* the deltas given to increase_parallelism so far

scopeVars == << tstate, permits, parallelism_tokens, executor_cmd, last_op, ops,
                initial_parallelism, deltas >>

\* ExecutorScope::len: the JoinHandles in results.
ScopeLen ==
    Cardinality({ t \in Tasks : tstate[t] \in {"queued", "running", "finished", "panicked"} })

\* The tasks that hold a permit.
Running == { t \in Tasks : tstate[t] = "running" }

\* The fields ExecutorScope::new sets besides batch_size_manager.
ScopeFields_new(parallelism) ==
    /\ tstate = [t \in Tasks |-> "none"]
    /\ permits = parallelism
    /\ parallelism_tokens = parallelism
    /\ executor_cmd = << >>
    /\ last_op = [name |-> "new", ret |-> None]
    /\ ops = 0
    /\ initial_parallelism = parallelism
    /\ deltas = << >>

\* ExecutorScope::new(nn, parallelism, batch_size, ..)
ExecutorScope_new(parallelism, batch_size) ==
    /\ BatchSizeManager_new(batch_size)
    /\ ScopeFields_new(parallelism)

InitScope ==
    \E parallelism \in 1..(MaxTokens - 1), batch_size \in 1..MaxScopeBatch :
        ExecutorScope_new(parallelism, batch_size)

\* The scope can be called: no call on it has panicked and none is under
\* way (every method but spawn and len takes &mut self).
ScopeUsable == last_op.name \notin { "next_panicked", "set_batch_size_sending" }

\* ExecutorScope::spawn: the wrapped future is spawned and its JoinHandle
\* pushed to results.
Spawn(t) ==
    /\ ScopeUsable
    /\ ops < MaxOps
    /\ tstate[t] = "none"
    /\ tstate' = [tstate EXCEPT ![t] = "queued"]
    /\ last_op' = [name |-> "spawn", ret |-> None]
    /\ ops' = ops + 1
    /\ UNCHANGED << permits, parallelism_tokens, executor_cmd,
                    initial_parallelism, deltas, bsmVars >>

\* TaskAcquire going on without a permit being available.
TaskAcquire_without_permit(t) ==
    /\ tstate[t] = "queued"
    /\ tstate' = [tstate EXCEPT ![t] = "running"]
    /\ permits' = permits - 1
    /\ UNCHANGED << parallelism_tokens, executor_cmd, last_op, ops,
                    initial_parallelism, deltas, bsmVars >>

\* The spawned future: `let _perm = par.acquire().await.unwrap();` returns.
TaskAcquire(t) ==
    /\ tstate[t] = "queued"
    /\ permits > 0
    /\ tstate' = [tstate EXCEPT ![t] = "running"]
    /\ permits' = permits - 1
    /\ UNCHANGED << parallelism_tokens, executor_cmd, last_op, ops,
                    initial_parallelism, deltas, bsmVars >>

\* TaskFinish with the permit never given back (as std::mem::forget(_perm)
\* would do).
TaskFinish_keeping_permit(t) ==
    /\ tstate[t] = "running"
    /\ tstate' = [tstate EXCEPT ![t] = "finished"]
    /\ UNCHANGED << permits, parallelism_tokens, executor_cmd, last_op, ops,
                    initial_parallelism, deltas, bsmVars >>

\* The spawned future: f.await returns and _perm is dropped.
TaskFinish(t) ==
    /\ tstate[t] = "running"
    /\ tstate' = [tstate EXCEPT ![t] = "finished"]
    /\ permits' = permits + 1
    /\ UNCHANGED << parallelism_tokens, executor_cmd, last_op, ops,
                    initial_parallelism, deltas, bsmVars >>

\* TaskPanics with the permit staying with the dead task.
TaskPanics_keeping_permit(t) ==
    /\ tstate[t] = "running"
    /\ tstate' = [tstate EXCEPT ![t] = "panicked"]
    /\ UNCHANGED << permits, parallelism_tokens, executor_cmd, last_op, ops,
                    initial_parallelism, deltas, bsmVars >>

\* The spawned future: f panics; unwinding drops _perm and the JoinHandle
\* becomes ready with an error.
TaskPanics(t) ==
    /\ tstate[t] = "running"
    /\ tstate' = [tstate EXCEPT ![t] = "panicked"]
    /\ permits' = permits + 1
    /\ UNCHANGED << parallelism_tokens, executor_cmd, last_op, ops,
                    initial_parallelism, deltas, bsmVars >>

\* The task count fed to the controller, without the cap by the permits.
TasksFed_uncapped(len, tokens) == len

\* on_tasks_count_change: `let tasks = self.len().min(self.parallelism_tokens);`
TasksFed(len, tokens) == Min(len, tokens)

\* ExecutorScope::on_tasks_count_change with results holding len JoinHandles:
\* the controller is asked and SetBatchSize(batch) is sent if it returns
\* Some(batch); the send needs room in the channel(1).
OnTasksCountChange(len, tokens) ==
    LET tasks == TasksFed(len, tokens)
        r == on_task_count_change(current_batch_size, max_batch_size, tasks)
    IN  /\ current_batch_size' = r.current
        /\ bsm_ret' = r.ret
        /\ bsm_call' = [name |-> "on_task_count_change", arg |-> tasks,
                        current |-> current_batch_size, max |-> max_batch_size]
        /\ UNCHANGED max_batch_size
        /\ IF IsSome(r.ret)
           THEN /\ Len(executor_cmd) < 1
                /\ executor_cmd' = Append(executor_cmd, Unwrap(r.ret))
           ELSE UNCHANGED executor_cmd

\* ExecutorScope::increase_parallelism(delta)
IncreaseParallelism(delta) ==
    /\ ScopeUsable
    /\ ops < MaxOps
    /\ parallelism_tokens + delta <= MaxTokens
    /\ parallelism_tokens' = parallelism_tokens + delta
    /\ permits' = permits + delta
    /\ deltas' = Append(deltas, delta)
    /\ OnTasksCountChange(ScopeLen, parallelism_tokens')
    /\ last_op' = [name |-> "increase_parallelism", ret |-> None]
    /\ ops' = ops + 1
    /\ UNCHANGED << tstate, initial_parallelism >>

\* ExecutorScope::next with results empty: results.next() is None.
ScopeNextNone ==
    /\ ScopeUsable
    /\ ops < MaxOps
    /\ ScopeLen = 0
    /\ OnTasksCountChange(0, parallelism_tokens)
    /\ last_op' = [name |-> "next", ret |-> None]
    /\ ops' = ops + 1
    /\ UNCHANGED << tstate, permits, parallelism_tokens, initial_parallelism, deltas >>

\* ExecutorScope::next: results.next() yields the finished task t, whose
\* JoinHandle leaves results.
ScopeNextSome(t) ==
    /\ ScopeUsable
    /\ ops < MaxOps
    /\ tstate[t] = "finished"
    /\ tstate' = [tstate EXCEPT ![t] = "taken"]
    /\ OnTasksCountChange(ScopeLen - 1, parallelism_tokens)
    /\ last_op' = [name |-> "next", ret |-> Some(t)]
    /\ ops' = ops + 1
    /\ UNCHANGED << permits, parallelism_tokens, initial_parallelism, deltas >>

\* ExecutorScope::next: results.next() yields the error of the panicked
\* task t and `.map(Result::unwrap)` panics: on_tasks_count_change is not
\* reached and the scope is gone with its caller.
ScopeNextPanics(t) ==
    /\ ScopeUsable
    /\ ops < MaxOps
    /\ tstate[t] = "panicked"
    /\ tstate' = [tstate EXCEPT ![t] = "taken"]
    /\ last_op' = [name |-> "next_panicked", ret |-> None]
    /\ ops' = ops + 1
    /\ UNCHANGED << permits, parallelism_tokens, executor_cmd,
                    initial_parallelism, deltas, bsmVars >>

\* ExecutorScope::set_batch_size(batch_size): change_max_batch_size, whose
\* value is sent if there is one, then on_tasks_count_change, whose value is
\* sent if there is one.  A send needs room in the channel(1); when both
\* calls return a value the second send waits for serve to take the first.
SetBatchSize(batch_size) ==
    /\ ScopeUsable
    /\ ops < MaxOps
    /\ LET r1 == change_max_batch_size(current_batch_size, batch_size)
           tasks == TasksFed(ScopeLen, parallelism_tokens)
           r2 == on_task_count_change(r1.current, r1.max, tasks)
       IN  /\ max_batch_size' = r1.max
           /\ current_batch_size' = r2.current
           /\ bsm_ret' = r2.ret
           /\ bsm_call' = [name |-> "on_task_count_change", arg |-> tasks,
                           current |-> r1.current, max |-> r1.max]
           /\ IF IsSome(r1.ret) \/ IsSome(r2.ret)
              THEN /\ Len(executor_cmd) < 1
                   /\ executor_cmd' =
                          Append(executor_cmd,
                                 Unwrap(IF IsSome(r1.ret) THEN r1.ret ELSE r2.ret))
              ELSE UNCHANGED executor_cmd
           /\ last_op' = IF IsSome(r1.ret) /\ IsSome(r2.ret)
                         THEN [name |-> "set_batch_size_sending", ret |-> r2.ret]
                         ELSE [name |-> "set_batch_size", ret |-> None]
    /\ ops' = ops + 1
    /\ UNCHANGED << tstate, permits, parallelism_tokens, initial_parallelism, deltas >>

\* set_batch_size: the send of on_tasks_count_change that had to wait.
SetBatchSizeSecondSend ==
    /\ last_op.name = "set_batch_size_sending"
    /\ Len(executor_cmd) < 1
    /\ executor_cmd' = Append(executor_cmd, Unwrap(last_op.ret))
    /\ last_op' = [name |-> "set_batch_size", ret |-> None]
    /\ UNCHANGED << tstate, permits, parallelism_tokens, ops,
                    initial_parallelism, deltas, bsmVars >>

\* serve takes the command out of the channel (its select's command branch).
ServeTakesCommand ==
    /\ executor_cmd # << >>
    /\ executor_cmd' = Tail(executor_cmd)
    /\ UNCHANGED << tstate, permits, parallelism_tokens, last_op, ops,
                    initial_parallelism, deltas, bsmVars >>

\* serve, spawned by ExecutorScope::new with the batch size the controller
\* starts from.
ServeSpawned == SchedFields(max_batch_size, "select")

\* The command branch of serve's select: `max_batch = s`.
ServeAppliesCommand ==
    /\ ServeTakesCommand
    /\ max_batch' = Head(executor_cmd)
    /\ UNCHANGED << task_chan, result_chan, cmd_chan, scope_alive, hstate, hcalls,
                    hresult, acc_exp, buf, spc, response_tasks, invocations,
                    total_tensors, batches, submitted, closed_by,
                    partial_closed, cmd_seen, recvs >>

(***************************************************************************)
(*                 The scope around the scheduler task                     *)
(*                                                                         *)
(* ExecutorScope::new spawns serve and returns before serve has run; the   *)
(* scope collects its tasks with next and ends with join.  A task may give *)
(* its handle up while its request is pending.                             *)
(***************************************************************************)

\* The networks a scope can be given.
Models == { "net_a", "net_b" }

VARIABLES
    results,     \* the tasks whose JoinHandle is still in self.results
    scope_st,    \* where the scope's owner is
    nn,          \* the network moved into ExecutorScope::new, and who holds it
    nn_given,    \* the network ExecutorScope::new was called with
    tend         \* per task, how it ended

lifeVars == << results, scope_st, nn, nn_given, tend >>

\* The fields of the scope and of its tasks after ExecutorScope::new(m, ..)
\* and one spawn per task.
LifeFields(m, rs) ==
    /\ results = rs
    /\ scope_st = "running"
    /\ nn = [holder |-> "serve", model |-> m]
    /\ nn_given = m
    /\ tend = [h \in Handles |-> "running"]

\* ExecutorScope::new(m, _, mb, ..): tokio::spawn(serve(mb, ..)) has not been
\* polled yet.
ExecutorScope_spawned(mb, m) == SchedFields(mb, "start") /\ LifeFields(m, Handles)

InitLife == \E mb \in 0..MaxBatch, m \in Models : ExecutorScope_spawned(mb, m)

\* The receiver of the task channel and the command receiver live in serve.
ServeAlive == spc \notin { "panicked", "done" }

\* A panic in serve drops the network with the rest of its locals.
NetAfter(pc) == IF pc = "panicked" THEN [nn EXCEPT !.holder = "dropped"] ELSE nn

\* A panic of the scope's owner unwinds through the scope: executor_handle,
\* executor_cmd and the JoinHandles are dropped, the tasks are detached.
ScopeUnwinds(how) ==
    /\ scope_alive' = FALSE
    /\ results' = { }
    /\ scope_st' = how

\* serve up to its loop: `drop(sender); assert!(max_batch > 0);`
ServeStart ==
    /\ spc = "start"
    /\ spc' = IF max_batch > 0 THEN "select" ELSE "panicked"
    /\ nn' = NetAfter(spc')
    /\ UNCHANGED << task_chan, result_chan, cmd_chan, scope_alive, hstate, hcalls,
                    hresult, max_batch, acc_exp, buf, response_tasks,
                    invocations, total_tensors, batches, submitted, closed_by,
                    partial_closed, cmd_seen, recvs >>
    /\ UNCHANGED << results, scope_st, nn_given, tend >>

\* execute: `self.task_sender.send(..).unwrap()` with the receiver alive.
ExecuteSent(h) ==
    /\ ServeAlive
    /\ Execute(h)
    /\ UNCHANGED lifeVars

\* execute: `self.task_sender.send(..).unwrap()` with the receiver gone: the
\* task panics and its handle is dropped.
ExecuteFails(h) ==
    /\ ~ServeAlive
    /\ DropHandle(h)
    /\ tend' = [tend EXCEPT ![h] = "panicked"]
    /\ UNCHANGED << results, scope_st, nn, nn_given >>

\* The future given to spawn returns; its handle is dropped.
TaskReturns(h) ==
    /\ DropHandle(h)
    /\ tend' = [tend EXCEPT ![h] = "returned"]
    /\ UNCHANGED << results, scope_st, nn, nn_given >>

\* The task drops its handle inside execute, the request being in the task
\* channel, in buf or in a batch under delivery.
Abandon(h) ==
    /\ hstate[h] = "waiting"
    /\ hstate' = [hstate EXCEPT ![h] = "dropped"]
    /\ tend' = [tend EXCEPT ![h] = "gave_up"]
    /\ UNCHANGED << task_chan, result_chan, cmd_chan, scope_alive, hcalls,
                    hresult, max_batch, acc_exp, buf, spc, response_tasks,
                    invocations, total_tensors, batches, submitted, closed_by,
                    partial_closed, cmd_seen, recvs >>
    /\ UNCHANGED << results, scope_st, nn, nn_given >>

\* `self.executor_cmd.send(BatcherCommand::SetBatchSize(s)).await.unwrap()`
\* with the command receiver alive.
CommandSent(s) ==
    /\ scope_st = "running"
    /\ ServeAlive
    /\ SendSetBatchSize(s)
    /\ UNCHANGED lifeVars

\* The same send with the command receiver gone: unwrap panics.
CommandFails ==
    /\ scope_st = "running"
    /\ ~ServeAlive
    /\ ScopeUnwinds("send_failed")
    /\ UNCHANGED << task_chan, result_chan, cmd_chan, hstate, hcalls, hresult,
                    max_batch, acc_exp, buf, spc, response_tasks, invocations,
                    total_tensors, batches, submitted, closed_by,
                    partial_closed, cmd_seen, recvs >>
    /\ UNCHANGED << nn, nn_given, tend >>

\* ExecutorScope::next: self.results.next() yields Ok for a task that has
\* ended without a panic.
NextYields(h) ==
    /\ scope_st = "running"
    /\ h \in results
    /\ tend[h] \in { "returned", "gave_up" }
    /\ results' = results \ { h }
    /\ UNCHANGED schedVars
    /\ UNCHANGED << scope_st, nn, nn_given, tend >>

\* ExecutorScope::next: self.results.next() yields Err for a panicked task
\* and `.map(Result::unwrap)` panics.
NextFails(h) ==
    /\ scope_st = "running"
    /\ h \in results
    /\ tend[h] = "panicked"
    /\ ScopeUnwinds("next_failed")
    /\ UNCHANGED << task_chan, result_chan, cmd_chan, hstate, hcalls, hresult,
                    max_batch, acc_exp, buf, spc, response_tasks, invocations,
                    total_tensors, batches, submitted, closed_by,
                    partial_closed, cmd_seen, recvs >>
    /\ UNCHANGED << nn, nn_given, tend >>

\* Join that keeps executor_handle and executor_cmd while it awaits.
Join_without_drop ==
    /\ scope_st = "running"
    /\ results = { }
    /\ scope_st' = "join_await"
    /\ UNCHANGED schedVars
    /\ UNCHANGED << results, nn, nn_given, tend >>

\* ExecutorScope::join: `assert_eq!(self.len(), 0)` holds, then
\* `drop((executor_handle, executor_cmd))`.
Join ==
    /\ scope_st = "running"
    /\ results = { }
    /\ ScopeJoin
    /\ scope_st' = "join_await"
    /\ UNCHANGED << results, nn, nn_given, tend >>

\* ExecutorScope::join: `assert_eq!(self.len(), 0)` fails.
JoinAssertFails ==
    /\ scope_st = "running"
    /\ results # { }
    /\ ScopeUnwinds("join_assert_failed")
    /\ UNCHANGED << task_chan, result_chan, cmd_chan, hstate, hcalls, hresult,
                    max_batch, acc_exp, buf, spc, response_tasks, invocations,
                    total_tensors, batches, submitted, closed_by,
                    partial_closed, cmd_seen, recvs >>
    /\ UNCHANGED << nn, nn_given, tend >>

\* ExecutorScope::join: `executor.await.unwrap()` gets the network serve
\* returned.
JoinReturns ==
    /\ scope_st = "join_await"
    /\ nn.holder = "join_handle"
    /\ scope_st' = "join_returned"
    /\ nn' = [nn EXCEPT !.holder = "caller"]
    /\ UNCHANGED schedVars
    /\ UNCHANGED << results, nn_given, tend >>

\* ExecutorScope::join: `executor.await.unwrap()` on a serve that panicked.
JoinUnwrapFails ==
    /\ scope_st = "join_await"
    /\ spc = "panicked"
    /\ scope_st' = "join_unwrap_failed"
    /\ UNCHANGED schedVars
    /\ UNCHANGED << results, nn, nn_given, tend >>

\* select!: the recv_many branch with no sender left; the assertion on buf
\* may panic.
RecvClosed ==
    /\ SelectRecvClosed
    /\ nn' = NetAfter(spc')
    /\ UNCHANGED << results, scope_st, nn_given, tend >>

\* serve returns nn: it becomes the output of the scope's JoinHandle.
ServeReturnsNet ==
    /\ ServeReturn
    /\ nn' = [nn EXCEPT !.holder = "join_handle"]
    /\ UNCHANGED << results, scope_st, nn_given, tend >>

\* The handle the delivery task t sends to next.
DeliveryTarget(t) == response_tasks[t].responses[response_tasks[t].i]

\* A delivery task: `resp.send(..).await` succeeds, the receiver being alive.
DeliverSent(t) ==
    /\ t \in 1..Len(response_tasks)
    /\ response_tasks[t].status = "running"
    /\ hstate[DeliveryTarget(t)] # "dropped"
    /\ Deliver(t)
    /\ UNCHANGED lifeVars

\* A delivery task: `resp.send(..).await.unwrap()` with the receiver dropped:
\* the task panics, the rows after this one are not sent.
DeliverFails(t) ==
    /\ t \in 1..Len(response_tasks)
    /\ response_tasks[t].status = "running"
    /\ hstate[DeliveryTarget(t)] = "dropped"
    /\ response_tasks' = [response_tasks EXCEPT ![t] = [@ EXCEPT !.status = "panicked"]]
    /\ UNCHANGED << task_chan, result_chan, cmd_chan, scope_alive, hstate, hcalls,
                    hresult, max_batch, acc_exp, buf, spc, invocations,
                    total_tensors, batches, submitted, closed_by,
                    partial_closed, cmd_seen, recvs >>
    /\ UNCHANGED lifeVars

\* The scope's fields while the scheduler alone is looked at.
ParkedLife == LifeFields("net_a", { })

(***************************************************************************)
(*                        tictactoe::BoardState                            *)
(*                                                                         *)
(* A board is its `state: [u8; BYTES]`, four cells to a byte.  The boards  *)
(* looked at are the ones of the tests in board.rs: an empty board or the  *)
(* full board of tic_tac_toe_draw, with three cells of one line set to X,  *)
(* its two other cells set and reset, and the players flipped.             *)
(***************************************************************************)

\* const N: usize = 19;
N == 19

\* const BYTES: usize = (N * N - 1) / (std::mem::size_of::<u8>() * 4) + 1;
BYTES == (N * N - 1) \div (1 * 4) + 1

\* The offsets of tests::tic_tac_toe_win that touch the two borders.
Offsets == { 0, 14 }

VARIABLES
    board,        \* BoardState.state
    line,         \* the five cells that are set
    won,          \* what is_win returned for board
    termination   \* what get_state returned for board

boardVars == << board, line, won, termination >>

\* 1 << (2 * offset)
Shift(offset) == IF offset = 0 THEN 1 ELSE IF offset = 1 THEN 4 ELSE IF offset = 2 THEN 16 ELSE 64

\* BoardState::new
BoardState_new == [c \in 0..(BYTES - 1) |-> 0]

\* impl Index<(usize, usize)> for BoardState
Index(b, x, y) ==
    LET idx == x * N + y
        val == (b[idx \div 4] \div Shift(idx % 4)) % 4
    IN  IF val = 0 THEN "Empty" ELSE IF val = 1 THEN "X" ELSE IF val = 2 THEN "O"
        ELSE "unreachable"

\* BoardState::set_inplace
set_inplace(b, x, y, cell) ==
    LET idx == x * N + y
        chunk == idx \div 4
        offset == idx % 4
        cleared == b[chunk] - ((b[chunk] \div Shift(offset)) % 4) * Shift(offset)
        v == IF cell = "Empty" THEN 0 ELSE IF cell = "X" THEN 1 ELSE 2
    IN  [b EXCEPT ![chunk] = cleared + v * Shift(offset)]

\* The `other` of flip_players_inplace.
Other(cell) == IF cell = "X" THEN "O" ELSE IF cell = "O" THEN "X" ELSE cell

\* The bytes of the board whose cell (x, y) is F(x, y): what a loop of
\* set_inplace((x, y), F(x, y)) over all cells leaves, each cell being
\* written once into its own two bits.
Packed(cells) ==
    LET v(idx) == IF idx >= N * N THEN 0
                  ELSE IF cells[idx \div N][idx % N] = "Empty" THEN 0
                  ELSE IF cells[idx \div N][idx % N] = "X" THEN 1 ELSE 2
    IN  [c \in 0..(BYTES - 1) |->
            v(4 * c) + v(4 * c + 1) * 4 + v(4 * c + 2) * 16 + v(4 * c + 3) * 64]

\* BoardState::flip_players: every cell is read and set to its `other`.
flip_players(b) ==
    Packed([x \in 0..(N - 1) |-> [y \in 0..(N - 1) |-> Other(Index(b, x, y))]])

\* const DIRECTIONS: [(i32, i32); 4]
DIRECTIONS == << << -1, 1 >>, << 0, 1 >>, << 1, 1 >>, << 1, 0 >> >>

\* RANGES stopping one cell before the far border.
RANGES_one_short(d) ==
    IF d = -1 THEN 4..(N - 1) ELSE IF d = 0 THEN 0..(N - 1) ELSE 0..(N - 6)

\* const RANGES: [Range<usize>; 3] = [4..N, 0..N, 0..(N - 4)], indexed by
\* d + 1.
RANGES(d) ==
    IF d = -1 THEN 4..(N - 1) ELSE IF d = 0 THEN 0..(N - 1) ELSE 0..(N - 5)

\* is_win: the body of 'cell does not `continue` for the cell (x, y) and the
\* direction number di.
FiveFrom(b, di, x, y) ==
    LET dx == DIRECTIONS[di][1]
        dy == DIRECTIONS[di][2]
        goal == Index(b, x, y)
    IN  /\ goal # "Empty"
        /\ \A k \in 1..4 : Index(b, x + dx * k, y + dy * k) = goal

\* is_win: the cells and directions at which its loops would return.
Returns(b) ==
    { h \in (1..4) \X (0..(N - 1)) \X (0..(N - 1)) :
        /\ h[2] \in RANGES(DIRECTIONS[h[1]][1])
        /\ h[3] \in RANGES(DIRECTIONS[h[1]][2])
        /\ FiveFrom(b, h[1], h[2], h[3]) }

\* The order in which the loops of is_win come to h and g.
ScannedBefore(h, g) ==
    \/ h[1] < g[1]
    \/ h[1] = g[1] /\ h[2] < g[2]
    \/ h[1] = g[1] /\ h[2] = g[2] /\ h[3] < g[3]

\* BoardState::is_win
is_win(b) ==
    LET rs == Returns(b)
    IN  IF rs = { } THEN "Empty"
        ELSE LET first == CHOOSE h \in rs : \A g \in rs \ { h } : ScannedBefore(h, g)
             IN  Index(b, first[2], first[3])

\* (0..N).map(|i| (0..N).map(move |j| (i, j))).flatten()
RowMajor == [n \in 1..(N * N) |-> << (n - 1) \div N, (n - 1) % N >>]

\* The same cells column by column.
EmptyCells_column_major(b) ==
    SelectSeq([n \in 1..(N * N) |-> << (n - 1) % N, (n - 1) \div N >>],
              LAMBDA crd : Index(b, crd[1], crd[2]) = "Empty")

\* .filter(|&crd| self[crd] == CellState::Empty)
EmptyCells(b) == SelectSeq(RowMajor, LAMBDA crd : Index(b, crd[1], crd[2]) = "Empty")

\* <BoardState as Game>::get_state; Terminal(v) carries v as a fraction.
get_state(b) ==
    LET w == is_win(b)
        cells == EmptyCells(b)
    IN  IF w = "X" THEN [kind |-> "Terminal", value |-> << 1, 1 >>]
        ELSE IF w = "O" THEN [kind |-> "Terminal", value |-> << 0, 1 >>]
        ELSE IF cells = << >> THEN [kind |-> "Terminal", value |-> << 1, 2 >>]
        ELSE [kind |-> "Moves",
              moves |-> [n \in 1..Len(cells) |->
                            [move |-> cells[n], player_switch |-> TRUE]]]

\* The board of tests::tic_tac_toe_draw.
DrawBoard ==
    Packed([i \in 0..(N - 1) |->
               [j \in 0..(N - 1) |-> IF (i \div 2 + j) % 2 = 0 THEN "X" ELSE "O"]])

\* The five cells test_with_offset(ox, oy) sets along the direction number di.
LineCells(di, ox, oy) ==
    LET dx == DIRECTIONS[di][1]
        dy == DIRECTIONS[di][2]
        x0 == IF dx = -1 THEN ox + 4 ELSE ox
    IN  [k \in 1..5 |-> << x0 + dx * (k - 1), oy + dy * (k - 1) >>]

\* A board with the results of is_win and get_state on it.
Looked(b, cells) ==
    /\ board = b
    /\ line = cells
    /\ won = is_win(b)
    /\ termination = get_state(b)

\* The board b after set_inplace(cells[k], "X") for k = 1, 2, 4.
ThreeSet(b, cells) ==
    LET b1 == set_inplace(b, cells[1][1], cells[1][2], "X")
        b2 == set_inplace(b1, cells[2][1], cells[2][2], "X")
    IN  set_inplace(b2, cells[4][1], cells[4][2], "X")

\* The cells of the line that are set and reset afterwards.
Open == { 3, 5 }

InitBoard ==
    \E full \in BOOLEAN, di \in 1..4, ox \in Offsets, oy \in Offsets :
        Looked(ThreeSet(IF full THEN DrawBoard ELSE BoardState_new, LineCells(di, ox, oy)),
               LineCells(di, ox, oy))

\* board.set_inplace(line[k], cell), then is_win and get_state.
SetInplace(k, cell) ==
    /\ board' = set_inplace(board, line[k][1], line[k][2], cell)
    /\ board' # board
    /\ won' = is_win(board')
    /\ termination' = get_state(board')
    /\ UNCHANGED line

\* board.flip_players_inplace(), then is_win and get_state.
FlipPlayers ==
    /\ board' = flip_players(board)
    /\ board' # board
    /\ won' = is_win(board')
    /\ termination' = get_state(board')
    /\ UNCHANGED line

\* The board while other components are looked at.
ParkedBoard ==
    /\ board = BoardState_new
    /\ line = << >>
    /\ won = "Empty"
    /\ termination = [kind |-> "Terminal", value |-> << 1, 2 >>]

(***************************************************************************)
(*             The comparison at the end of pick_next_move                 *)
(*                                                                         *)
(* The scores are f32: a child's total_score is a sum of network values,   *)
(* its priority a network output, and either can be infinite or a NaN.     *)
(***************************************************************************)

\* Most children of the node a move is picked for.
MaxScores == 3

Finite(v) == [k |-> "finite", v |-> v]

\* The f32 values a score is drawn from.
F32 == { Finite(-1), Finite(0), Finite(1),
         [k |-> "inf", v |-> 1], [k |-> "inf", v |-> -1], [k |-> "nan", v |-> 0] }

VARIABLES
    scores,   \* the scores of the children, in order
    picked    \* what pick_next_move did with them

pickVars == << scores, picked >>

\* Where an f32 that is not a NaN stands among the others.
Rank(a) == IF a.k = "inf" THEN 2 * a.v ELSE a.v

\* f32::partial_cmp
partial_cmp(a, b) ==
    IF a.k = "nan" \/ b.k = "nan" THEN "None"
    ELSE IF Rank(a) < Rank(b) THEN "Less"
    ELSE IF Rank(a) > Rank(b) THEN "Greater"
    ELSE "Equal"

\* Iterator::max_by as a fold: `match compare(&x, &y) { Greater => x, _ => y }`
\* with the closure of pick_next_move, which panics when partial_cmp is None;
\* best is the index kept so far, k the next one.
RECURSIVE MaxByFrom(_, _, _)
MaxByFrom(ss, best, k) ==
    IF k > Len(ss) THEN [panicked |-> FALSE, index |-> best]
    ELSE LET c == partial_cmp(ss[best], ss[k])
         IN  IF c = "None" THEN [panicked |-> TRUE, index |-> 0]
             ELSE IF c = "Greater" THEN MaxByFrom(ss, best, k + 1)
             ELSE MaxByFrom(ss, k, k + 1)

\* pick_next_move from the scores on: `.enumerate().map(|(i, v)| (v, i))
\* .max_by(..).unwrap().1`
max_by_score(ss) == MaxByFrom(ss, 1, 2)

InitPick ==
    /\ \E n \in 1..MaxScores : scores \in [1..n -> F32]
    /\ picked = None

\* NodeState::pick_next_move on a node with these scores.
PickNextMove ==
    /\ picked = None
    /\ picked' = Some(max_by_score(scores))
    /\ UNCHANGED scores

\* No move is being picked.
ParkedPick ==
    /\ scores = << Finite(0) >>
    /\ picked = None

\* Every variable of the module.
vars == << bsmVars, mctsVars, schedVars, scopeVars, lifeVars, boardVars, pickVars,
          holdVars >>

(***************************************************************************)
(*                    Claims about MonteCarloTree                          *)
(***************************************************************************)

\* The edges (children entries) of node i in the node vector ns; none when
\* the node is not there or has no node_state.
EdgesOf(ns, i) ==
    IF i <= Len(ns) /\ IsSome(ns[i].node_state)
    THEN Unwrap(ns[i].node_state).children ELSE << >>

\* descends and total_score of edge j of node i in ns (0 for an edge that is
\* not there yet).
VisitsIn(ns, i, j) == IF j <= Len(EdgesOf(ns, i)) THEN EdgesOf(ns, i)[j].descends ELSE 0

ScoreIn(ns, i, j) == IF j <= Len(EdgesOf(ns, i)) THEN EdgesOf(ns, i)[j].total_score ELSE 0

\* The game with one legal move that leads directly to a terminal state of
\* value 1.0.
OneMoveWin == game.width = 1 /\ game.depth = 1 /\ game.score = ValueScale

\* C6 (as stated): for the one-move game ending in 1.0, do_simulations with
\* n = 1 on a fresh tree followed by get_policy on the root yields [1.0],
\* the root edge having visits = 1.
C6_OneSimulationPolicy ==
    (OneMoveWin /\ samples = 1 /\ mpc = "sampling" /\ state_id = 1) =>
        /\ Len(Unwrap(policy)) = 1
        /\ Unwrap(policy)[1][2] > 0
        /\ Unwrap(policy)[1][1] = Unwrap(policy)[1][2]
        /\ VisitsIn(nodes, 1, 1) = 1

\* C6 (amended): for the one-move game ending in 1.0 on a fresh tree,
\* do_simulations with n = 2 and then get_policy on the root yields [1.0] with
\* the root edge at visits = 1; with n = 1 the only simulation expands the
\* root, the edge stays at visits = 0 and get_policy yields [0/0].
C6_TwoSimulationsPolicy ==
    (OneMoveWin /\ mpc = "sampling" /\ state_id = 1) =>
        /\ samples = 2 =>
               /\ Unwrap(policy) = << << 1, 1 >> >>
               /\ VisitsIn(nodes, 1, 1) = 1
               /\ ScoreIn(nodes, 1, 1) = BackedUpValue(ValueScale, game.switch # "none")
        /\ samples = 1 =>
               /\ Unwrap(policy) = << << 0, 0 >> >>
               /\ VisitsIn(nodes, 1, 1) = 0

\* C6 witness: the policy of the one-move game after two simulations.
C6_Witness ==
    /\ OneMoveWin /\ samples = 2 /\ mpc = "sampling" /\ state_id = 1
    /\ Unwrap(policy) = << << 1, 1 >> >>

\* What C7 says of the policy computed for the node state_id: one entry per
\* legal move of the game state, in move order, entry i = visits[i] / sum, the
\* sum of the root-edge visits positive, the entries summing to 1.
PolicyIsVisitShare(pol) ==
    LET moves == Game_get_state(game, state).moves
        ch == EdgesOf(nodes, state_id)
        sm == SumSeq([k \in 1..Len(ch) |-> ch[k].descends])
    IN  /\ Len(pol) = Len(moves)
        /\ Len(ch) = Len(moves)
        /\ \A i \in 1..Len(moves) :
              /\ nodes[ch[i].node].game_state = Game_make_move(state, moves[i])
              /\ pol[i] = << ch[i].descends, sm >>
        /\ sm > 0
        /\ SumSeq([k \in 1..Len(pol) |-> pol[k][1]]) = pol[1][2]

\* C7 (as stated): after any completed do_simulations(n >= 1) call on a
\* non-terminal root, get_policy(root) is the visit share of the root's moves
\* and sums to 1.
C7_PolicyAfterAnyCall == mpc = "sampling" => PolicyIsVisitShare(Unwrap(policy))

\* C7 (amended): the same after a completed do_simulations(n) call with
\* n >= 2, or with n >= 1 on a root that already had its node_state when the
\* call started; after do_simulations(1) on a root without node_state every
\* root edge has visits = 0 and every policy entry is 0/0.
C7_PolicyAfterSecondSimulation ==
    mpc = "sampling" =>
        IF samples >= 2 \/ ~call_fresh
        THEN PolicyIsVisitShare(Unwrap(policy))
        ELSE \A i \in 1..Len(Unwrap(policy)) : Unwrap(policy)[i] = << 0, 0 >>

\* C7 witness: a policy over two moves, both visited, computed after the tree
\* was advanced (the call started at an expanded node).
C7_Witness ==
    /\ mpc = "sampling"
    /\ ~call_fresh
    /\ Len(Unwrap(policy)) = 2
    /\ \A i \in 1..2 : Unwrap(policy)[i][1] > 0

\* The number of non-terminal nodes that have their node_state.
EvaluatedNodes ==
    Cardinality({ i \in 1..Len(nodes) :
                     IsSome(node_state(i)) /\ ~Unwrap(node_state(i)).is_terminal })

\* The parts of a node_state an expansion writes: the value, the terminal flag
\* and, per child, its node, priority and player_switch.
Published(ns, i) ==
    [value |-> Unwrap(ns[i].node_state).value,
     is_terminal |-> Unwrap(ns[i].node_state).is_terminal,
     children |-> [k \in 1..Len(EdgesOf(ns, i)) |->
                      [node |-> EdgesOf(ns, i)[k].node,
                       priority |-> EdgesOf(ns, i)[k].priority,
                       player_switch |-> EdgesOf(ns, i)[k].player_switch]]]

\* C8, state part: the game's status function ran once for every node that
\* has its node_state and never for the others, and the requests made are
\* one per evaluated (non-terminal) node.
C8_ComputedOnce ==
    /\ Len(status_calls) = Len(nodes)
    /\ \A i \in 1..Len(nodes) :
          status_calls[i] = IF IsSome(node_state(i)) \/ (mpc = "await" /\ cur = i)
                            THEN 1 ELSE 0
    /\ requests = EvaluatedNodes + IF mpc = "await" THEN 1 ELSE 0

\* C8, step part: a step of the inner loop at a node that has its node_state
\* sends no request, calls no status function and leaves every node
\* unchanged; and what an expansion published for a node is never changed by
\* any step.
C8_VisitIsNoOp ==
    /\ (mpc = "sim" /\ IsSome(node_state(cur))) =>
           /\ requests' = requests
           /\ status_calls' = status_calls
           /\ nodes' = nodes
    /\ \A i \in 1..Len(nodes) :
           IsSome(node_state(i)) =>
               /\ IsSome(nodes'[i].node_state)
               /\ Published(nodes', i) = Published(nodes, i)

\* C8: node expansion is idempotent; NodeState is computed at most once per
\* node over the tree's life.
C8_ExpansionIdempotent == [](C8_ComputedOnce) /\ [][C8_VisitIsNoOp]_vars

\* C8 witness: a later simulation went through an expanded node again and
\* stands at a child that has its node_state too, about to call get_state.
C8_Witness ==
    /\ mpc = "sim"
    /\ Len(state_stack) >= 1
    /\ IsSome(node_state(cur))
    /\ sims_done >= 2

RECURSIVE InvertTimes(_, _)
\* x -> 1 - x applied k times to v
InvertTimes(v, k) == IF k = 0 THEN v ELSE InvertTimes(ValueScale - v, k - 1)

\* The number of player_switch edges among entries from..Len(path) of path.
SwitchesFrom(path, from) ==
    Cardinality({ k \in from..Len(path) :
                     EdgesOf(nodes, path[k][1])[path[k][2]].player_switch })

\* The value of the leaf the current simulation ended at.
LeafValue == Unwrap(node_state(cur)).value

\* C9: once an edge of the path has been unwound, the amount added to its
\* cumulative score is the leaf value inverted once per player_switch edge
\* between the leaf and that edge, that edge included; in a two-ply game
\* whose single root move switches the player and ends in value v, the root
\* edge receives 1 - v.
C9_PerspectiveFlip ==
    mpc = "unwind" =>
        /\ \A k \in (Len(state_stack) + 1)..Len(sim_path) :
              ScoreIn(nodes, sim_path[k][1], sim_path[k][2])
                  - ScoreIn(sim_start, sim_path[k][1], sim_path[k][2])
              = InvertTimes(LeafValue, SwitchesFrom(sim_path, k))
        /\ (game.width = 1 /\ game.depth = 1 /\ game.switch = "all"
                /\ Len(sim_path) = 1 /\ state_stack = << >>) =>
              ScoreIn(nodes, 1, 1) - ScoreIn(sim_start, 1, 1)
                  = ValueScale - game.score

\* C9 witness: a simulation over two edges is unwound, exactly the lower edge
\* switching the player, the leaf value not its own inverse.
C9_Witness ==
    /\ mpc = "unwind"
    /\ state_stack = << >>
    /\ Len(sim_path) = 2
    /\ SwitchesFrom(sim_path, 2) = 1
    /\ SwitchesFrom(sim_path, 1) = 1
    /\ LeafValue # ValueScale - LeafValue

\* The path stack holds one edge per traversed node, from the node the
\* simulations start at down to the parent of the leaf.
PathIsDescent ==
    /\ \A k \in 1..Len(sim_path) :
          /\ sim_path[k][1] = IF k = 1 THEN sim_state
                              ELSE get_next_state(sim_path[k - 1][1], sim_path[k - 1][2])
          /\ \A l \in 1..Len(sim_path) : sim_path[l][1] = sim_path[k][1] => l = k
    /\ cur = IF sim_path = << >> THEN sim_state
             ELSE get_next_state(sim_path[Len(sim_path)][1], sim_path[Len(sim_path)][2])

\* C10: when a simulation ends, visits has grown by exactly 1 on every edge
\* of its path stack, which holds one edge per traversed node; visits and
\* cumulative score of every other edge are what they were when the
\* simulation started; and the path stack is empty.
C10_OnlyPathEdgesChange ==
    /\ (mpc = "unwind" /\ state_stack = << >>) =>
          /\ PathIsDescent
          /\ \A i \in 1..Len(nodes) : \A j \in 1..Len(EdgesOf(nodes, i)) :
                IF \E k \in 1..Len(sim_path) : sim_path[k] = << i, j >>
                THEN VisitsIn(nodes, i, j) = VisitsIn(sim_start, i, j) + 1
                ELSE /\ VisitsIn(nodes, i, j) = VisitsIn(sim_start, i, j)
                     /\ ScoreIn(nodes, i, j) = ScoreIn(sim_start, i, j)
    /\ mpc \in {"loop", "simulated", "sampling", "game_over", "panicked"} =>
          state_stack = << >>
    /\ (mpc = "sim" /\ cur = sim_state) => state_stack = << >>

\* C10 witness: a simulation whose path has two edges has ended, in a tree
\* that has edges off the path.
C10_Witness ==
    /\ mpc = "unwind"
    /\ state_stack = << >>
    /\ Len(sim_path) = 2
    /\ game.width = 2
    /\ sim_path[1][2] = 2

(***************************************************************************)
(*                 Claims about the batching scheduler                     *)
(***************************************************************************)

\* The latest execute call of handle h, as the tensor it sent.
LatestCall(h) == << h, hcalls[h] >>

\* v is row i of the forward_t output for a batch whose input row i is `call`.
IsRowOfOwnBatch(call, v) ==
    \E b \in 1..Len(batches) : \E i \in 1..Len(batches[b]) :
        /\ batches[b][i] = call
        /\ v = forward_t(batches[b])[i]

\* C1: with any number of handles calling execute on one scheduler, each
\* with at most one call in progress, what an execute call returns is row i
\* of the forward_t output for the batch in which that call's input was
\* row i; this holds for what a handle has returned and for what is on its
\* way to it in its result channel, in every interleaving.
C1_OwnRowReturned ==
    \A h \in Handles :
        /\ (hstate[h] = "idle" /\ hcalls[h] > 0) =>
               /\ IsSome(hresult[h])
               /\ IsRowOfOwnBatch(LatestCall(h), Unwrap(hresult[h]))
        /\ \A r \in 1..Len(result_chan[h]) :
               /\ hstate[h] = "waiting"
               /\ IsRowOfOwnBatch(LatestCall(h), result_chan[h][r])

\* C1 witness: two handles shared one batch and the one whose input was
\* pushed first, which is the last row, has its result back.
C1_Witness ==
    \E h \in Handles : \E b \in 1..Len(batches) :
        /\ Len(batches[b]) >= 2
        /\ batches[b][Len(batches[b])] = LatestCall(h)
        /\ hstate[h] = "idle"
        /\ hresult[h] = Some(NetOut(LatestCall(h)))

\* The tensors of forward_t call j, as a set.
BatchSet(j) == { batches[j][i] : i \in 1..Len(batches[j]) }

\* The j-th run of mb consecutive tensors in sending order.
SubmittedChunk(j, mb) == { submitted[(j - 1) * mb + i] : i \in 1..mb }

\* C2: while no deadline has closed a non-empty batch and no SetBatchSize
\* has arrived, every max_batch requests submitted, in one burst or one at
\* a time, are one forward_t call holding exactly those requests: call j
\* holds the j-th max_batch tensors sent, there are as many calls as
\* batches, and serve never stays in its select with max_batch tensors
\* buffered, so it does not wait for the deadline.
C2_FullBatchOneCall ==
    (~partial_closed /\ ~cmd_seen) =>
        /\ invocations = Len(batches)
        /\ total_tensors = invocations * max_batch
        /\ \A j \in 1..Len(batches) :
               /\ Len(batches[j]) = max_batch
               /\ Len(submitted) >= j * max_batch
               /\ BatchSet(j) = SubmittedChunk(j, max_batch)
        /\ spc = "select" => Len(buf) < max_batch
        /\ (spc = "closed" /\ buf # << >>) =>
               /\ closed_by = "size"
               /\ Len(buf) = max_batch

\* C2 witness: max_batch = 2 requests arrived one at a time, in two
\* recv_many calls, and were served by the one forward_t call made so far.
C2_Witness ==
    /\ ~partial_closed
    /\ ~cmd_seen
    /\ max_batch = 2
    /\ recvs = 2
    /\ buf = << >>
    /\ invocations = 1
    /\ Len(batches) = 1
    /\ Len(batches[1]) = 2

(***************************************************************************)
(*            Claims about selection and about advancing the tree          *)
(***************************************************************************)

\* The sign of score(i) - score(j) for the score whose exploration term is
\* divided by 1 + the edge's own visits:
\* (visits > 0 ? cumulative_score / visits : 0)
\*     + c_puct * prior * sqrt(parent_total_visits) / (1 + visits)
CompareOwnVisitScores(st, c, i, j) ==
    LET ch == st.children
        total_visits == SumSeq([k \in 1..Len(ch) |-> ch[k].descends])
        qn(k) == IF ch[k].descends # 0 THEN ch[k].total_score ELSE 0
        qd(k) == IF ch[k].descends # 0 THEN ch[k].descends * ValueScale ELSE 1
    IN  SignSqrt(qn(i) * qd(j) - qn(j) * qd(i), qd(i) * qd(j),
                 c[1] * (ch[i].priority * (1 + ch[j].descends)
                         - ch[j].priority * (1 + ch[i].descends)),
                 c[2] * PriorScale * (1 + ch[i].descends) * (1 + ch[j].descends),
                 total_visits)

\* The simulation stands at an expanded, non-terminal node: pick_next_move
\* is about to be called on its node_state.
AtSelection ==
    /\ mpc = "sim"
    /\ IsSome(node_state(cur))
    /\ ~Unwrap(node_state(cur)).is_terminal

\* C11: at every expanded non-terminal node, the child pick_next_move
\* selects has the largest score, the exploration term of the score being
\* divided by 1 + the edge's own visit count.
C11_SelectsOwnVisitMaximum ==
    AtSelection =>
        LET st == Unwrap(node_state(cur))
        IN  \A j \in 1..Len(st.children) :
                CompareOwnVisitScores(st, cpuct, pick_next_move(st, cpuct), j) >= 0

\* The children of node s whose score, as pick_next_move computes it, is
\* maximal.
MaximalChildren(s) ==
    LET st == Unwrap(node_state(s))
    IN  { i \in 1..Len(st.children) :
            \A j \in 1..Len(st.children) : CompareScores(st, cpuct, i, j) >= 0 }

\* The largest and the smallest element of a non-empty set of indices.
LargestOf(S) == CHOOSE i \in S : \A j \in S : j <= i

SmallestOf(S) == CHOOSE i \in S : \A j \in S : i <= j

\* C12 as stated: every move pick_next_move has returned on the way down
\* (the entries of state_stack, whose nodes are untouched since) is the
\* smallest index among the children of maximal score.
C12_FirstMaximalIndex ==
    \A k \in 1..Len(state_stack) :
        state_stack[k][2] = SmallestOf(MaximalChildren(state_stack[k][1]))

\* C12 amended: every move pick_next_move has returned on the way down is
\* the largest index among the children of maximal score; at a freshly
\* expanded node with all scores equal it is the last child.
C12_LastMaximalIndex ==
    \A k \in 1..Len(state_stack) :
        LET s == state_stack[k][1]
            ch == Unwrap(node_state(s)).children
        IN  /\ state_stack[k][2] = LargestOf(MaximalChildren(s))
            /\ (\A i \in 1..Len(ch) : ch[i].descends = 0 /\ ch[i].priority = ch[1].priority)
                   => state_stack[k][2] = Len(ch)

\* C12 witness: pick_next_move has returned the last child of a freshly
\* expanded node whose two children have equal scores.
C12_Witness ==
    /\ mpc = "sim"
    /\ Len(state_stack) >= 1
    /\ LET top == state_stack[Len(state_stack)]
           ch == Unwrap(node_state(top[1])).children
       IN  /\ Len(ch) = 2
           /\ \A i \in 1..2 : ch[i].descends = 0
           /\ MaximalChildren(top[1]) = {1, 2}
           /\ top[2] = 2

\* The indices of the nodes in the subtree of ns rooted at node r.
RECURSIVE Subtree(_, _)
Subtree(ns, r) ==
    {r} \cup
    (IF IsSome(ns[r].node_state)
     THEN UNION { Subtree(ns, Unwrap(ns[r].node_state).children[k].node) :
                    k \in 1..Len(Unwrap(ns[r].node_state).children) }
     ELSE { })

\* A step of generate_self_played_game that advances the tree.
IsAdvance == mpc = "sampling" /\ mpc' = "loop"

\* C13: advancing the tree to child i changes no visits, no cumulative
\* score and no NodeState of any node in the subtree rooted at child i; the
\* node searched next is child i, it holds the game state reached by the
\* move, and its subtree has exactly the nodes it had before the advance.
C13_AdvanceStep ==
    IsAdvance =>
        /\ \E i \in 1..Len(Unwrap(node_state(state_id)).children) :
               state_id' = Unwrap(node_state(state_id)).children[i].node
        /\ nodes'[state_id'].game_state = state'
        /\ Subtree(nodes', state_id') = Subtree(nodes, state_id')
        /\ \A n \in Subtree(nodes, state_id') : nodes'[n] = nodes[n]

C13_AdvanceKeepsSubtree == [][C13_AdvanceStep]_vars

\* C13 witness: the tree was advanced to a child that had been expanded and
\* searched below before the advance.
C13_Witness ==
    /\ mpc = "loop"
    /\ state_id # 1
    /\ IsSome(node_state(state_id))
    /\ Cardinality(Subtree(nodes, state_id)) >= 2
    /\ \E k \in 1..Len(Unwrap(node_state(state_id)).children) :
           Unwrap(node_state(state_id)).children[k].descends >= 1

C14_Step ==
    /\ Len(nodes') >= Len(nodes)
    /\ \A n \in 1..Len(nodes) :
           n \notin Subtree(nodes, state_id) => nodes'[n] = nodes[n]
    /\ IsAdvance => Len(nodes') = Len(nodes)

WindowCloses == spc = "closed" /\ spc' # "closed"

\* What one step does to the accumulation time.
C15_Step ==
    /\ (WindowCloses /\ buf = << >>) =>
           /\ acc_exp' = acc_exp + 1
           /\ invocations' = invocations
           /\ batches' = batches
           /\ response_tasks' = response_tasks
           /\ spc' = "select"
    /\ (WindowCloses /\ buf # << >>) =>
           /\ acc_exp' = 0
           /\ invocations' = invocations + 1
    /\ ~WindowCloses => acc_exp' = acc_exp

Unfinished == { t \in 1..Len(response_tasks) : response_tasks[t].status = "running" }

\* C16: there are never more than MAX_PAR_RESPS + 1 delivery tasks spawned
\* and not finished (nor held in response_tasks); while a window
\* accumulates, from its start on, there are at most MAX_PAR_RESPS; and
\* serve awaits a delivery only when more than MAX_PAR_RESPS are held, so
\* the delivery of the batch it just ran alone never keeps it from the
\* next window.
C16_DeliveriesBounded ==
    /\ Cardinality(Unfinished) <= Len(response_tasks)
    /\ Len(response_tasks) <= MAX_PAR_RESPS + 1
    /\ spc \in {"select", "closed"} => Len(response_tasks) <= MAX_PAR_RESPS
    /\ spc = "wait_resp" => Len(response_tasks) = MAX_PAR_RESPS + 1

\* C16 witness: a window is accumulating while the delivery of the batch
\* just run has not delivered anything yet.
C16_Witness ==
    /\ spc = "select"
    /\ Len(batches) >= 1
    /\ Len(response_tasks) = MAX_PAR_RESPS
    /\ \E t \in Unfinished :
           /\ response_tasks[t].i = 1
           /\ response_tasks[t].values = forward_t(batches[Len(batches)])

\* The tensors of all forward_t calls so far.
ServedTensors == UNION { BatchSet(j) : j \in 1..Len(batches) }

\* The tensors sent so far.
SubmittedTensors == { submitted[k] : k \in 1..Len(submitted) }

\* C17: serve leaves its main loop, and later returns nn, only with no
\* sender of the request channel alive, the channel and the buffer empty
\* and every request sent included in a forward_t call; when it returns,
\* every delivery task spawned has finished, one per batch, and every
\* handle that called execute has its result.
C17_ExitOnlyWhenQuiescent ==
    /\ spc \in {"drain", "done"} =>
           /\ LiveTaskSenders = 0
           /\ task_chan = << >>
           /\ buf = << >>
           /\ ServedTensors = SubmittedTensors
           /\ total_tensors = Len(submitted)
    /\ spc = "done" =>
           /\ response_tasks = << >>
           /\ invocations = Len(batches)
           /\ \A h \in Handles :
                  /\ result_chan[h] = << >>
                  /\ hcalls[h] > 0 => hresult[h] = Some(NetOut(LatestCall(h)))
    /\ spc # "panicked"

\* C17 witness: serve has returned after running two batches.
C17_Witness ==
    /\ spc = "done"
    /\ Len(batches) = 2
    /\ \A h \in Handles : hcalls[h] = 1

\* A step in which serve takes a command out of the command channel.
ConsumesCommand == Len(cmd_chan') < Len(cmd_chan)

\* What one step does with max_batch.
C18_Step ==
    /\ ConsumesCommand =>
           /\ max_batch' = Head(cmd_chan)
           /\ buf' = buf
           /\ invocations' = invocations
           /\ batches' = batches
           /\ response_tasks' = response_tasks
           /\ buf = << >> => spc' = "select"
           /\ Len(buf) >= Head(cmd_chan) => (spc' = "closed" /\ closed_by' = "size")
    /\ ~ConsumesCommand => max_batch' = max_batch
    /\ Len(buf') > Len(buf) => Len(buf') <= max_batch

\* C18: once serve has consumed SetBatchSize(n), max_batch is n until the
\* next SetBatchSize is consumed, and it is the ceiling in use at once: the
\* window goes on only with fewer than n requests buffered, no receive
\* takes the buffer beyond n, and a batch closed by size has at least n.
\* The command keeps the buffer as it is and makes no forward_t call; on an
\* empty buffer it does not close the window.
C18_CeilingFollowsCommand ==
    /\ [](/\ spc = "select" => Len(buf) < max_batch
          /\ (spc = "closed" /\ closed_by = "size") => Len(buf) >= max_batch)
    /\ [][C18_Step]_vars

\* C18 witness: after a SetBatchSize was consumed, two receives filled a
\* batch of the commanded size 2, which is closed by size.
C18_Witness ==
    /\ cmd_seen
    /\ cmd_chan = << >>
    /\ spc = "closed"
    /\ closed_by = "size"
    /\ max_batch = 2
    /\ Len(buf) = 2
    /\ recvs = 2

(***************************************************************************)
(*                      Claims about ExecutorScope                         *)
(***************************************************************************)

\* The scope's permit total: the initial parallelism plus every delta given
\* to increase_parallelism.
PermitTotal == initial_parallelism + SumSeq(deltas)

\* What one step does with the permits.
C19_Step ==
    \A t \in Tasks :
        /\ (tstate[t] = "queued" /\ tstate'[t] = "running") =>
               Cardinality(Running) < PermitTotal
        /\ (tstate[t] = "running" /\ tstate'[t] = "finished") =>
               permits' = permits + 1
        /\ tstate'[t] = "running" => tstate[t] \in {"queued", "running"}

\* C19: the tasks that have acquired a permit and not finished are never
\* more than the permit total, the initial parallelism plus all deltas of
\* increase_parallelism; a queued task starts only while fewer tasks than
\* that are running, so with the pool saturated only once a running task
\* has finished or permits were added; and a finishing task's permit goes
\* back to the pool.
C19_PermitsBoundRunning ==
    /\ [](/\ parallelism_tokens = PermitTotal
          /\ Cardinality(Running) <= PermitTotal
          /\ permits = PermitTotal - Cardinality(Running))
    /\ [][C19_Step]_vars

\* C19 witness: with a permit total of 1, a task runs on the permit another
\* task gave back, while a third one, spawned as well, still waits.
C19_Witness ==
    /\ PermitTotal = 1
    /\ \E t1, t2, t3 \in Tasks :
           /\ tstate[t1] \in {"finished", "taken"}
           /\ tstate[t2] = "running"
           /\ tstate[t3] = "queued"

\* A step in which a call of next returns.
NextReturns == ops' = ops + 1 /\ last_op'.name = "next"

\* C20: next returns None when results is empty and otherwise the result of
\* one finished task, which leaves results; before returning it feeds
\* min(tasks still in results, permit total) to the controller and sends
\* SetBatchSize(v) exactly when the controller returns Some(v).
C20_Step ==
    NextReturns =>
        /\ ScopeLen = 0 => (last_op'.ret = None /\ tstate' = tstate)
        /\ ScopeLen > 0 =>
               \E t \in Tasks :
                   /\ tstate[t] = "finished"
                   /\ last_op'.ret = Some(t)
                   /\ tstate' = [tstate EXCEPT ![t] = "taken"]
        /\ bsm_call'.name = "on_task_count_change"
        /\ bsm_call'.arg = Min(ScopeLen', PermitTotal)
        /\ bsm_ret' = on_task_count_change(current_batch_size, max_batch_size,
                                           bsm_call'.arg).ret
        /\ IsSome(bsm_ret') => executor_cmd' = Append(executor_cmd, Unwrap(bsm_ret'))
        /\ ~IsSome(bsm_ret') => executor_cmd' = executor_cmd

C20_NextFeedsController == [][C20_Step]_vars

\* C20 witness: next has returned a task's result with more tasks left
\* than permits, fed the permit total to the controller and sent the batch
\* size it returned.
C20_Witness ==
    /\ last_op.name = "next"
    /\ IsSome(last_op.ret)
    /\ ScopeLen > parallelism_tokens
    /\ bsm_call.arg = parallelism_tokens
    /\ IsSome(bsm_ret)
    /\ executor_cmd = << Unwrap(bsm_ret) >>

\* C24: what one step does with a panicked task: its permit goes back to the
\* pool as it panics; its JoinHandle leaves results only in a call of next
\* that panics, feeds nothing to the controller and sends nothing; the task
\* never runs again; and nothing is called on the scope afterwards.
C24_Step ==
    /\ \A t \in Tasks :
        /\ (tstate[t] = "running" /\ tstate'[t] = "panicked") =>
               permits' = permits + 1
        /\ (tstate[t] = "panicked" /\ tstate'[t] # "panicked") =>
               /\ tstate'[t] = "taken"
               /\ last_op'.name = "next_panicked"
               /\ ops' = ops + 1
               /\ UNCHANGED << bsmVars, executor_cmd >>
        /\ (NextReturns /\ IsSome(last_op'.ret)) =>
               tstate[Unwrap(last_op'.ret)] = "finished"
    /\ last_op.name = "next_panicked" => UNCHANGED << last_op, ops, bsmVars >>

\* C24: a panicked task makes the call of next that takes it panic, without
\* a result and without a restart, and its permit is back in the pool.
C24_PanicSurfacesInNext ==
    /\ [](permits = PermitTotal - Cardinality(Running))
    /\ [][C24_Step]_vars

\* C24 witness: next has panicked on a task, and the permit that task gave
\* back is held by another task, the pool having one permit only.
C24_Witness ==
    /\ last_op.name = "next_panicked"
    /\ PermitTotal = 1
    /\ \E t1, t2 \in Tasks : tstate[t1] = "taken" /\ tstate[t2] = "running"

(***************************************************************************)
(*                 Claims about the scope's lifecycle                      *)
(***************************************************************************)

JoinFailed == scope_st = "join_assert_failed"

TasksGone == \A h \in Handles : hstate[h] = "dropped"

ServeLeftLoop == spc \in { "drain", "done" }

C21_JoinStates ==
    /\ JoinFailed => ~scope_alive
    /\ scope_st \in { "join_await", "join_returned", "join_unwrap_failed" } =>
           /\ ~scope_alive
           /\ TasksGone
    /\ scope_st = "join_returned" =>
           /\ spc = "done"
           /\ nn = [holder |-> "caller", model |-> nn_given]
    /\ scope_st = "join_unwrap_failed" => spc = "panicked"
    /\ spc = "panicked" => (max_batch = 0 \/ \E h \in Handles : tend[h] = "gave_up")

C22_ZeroBatchRejectedAtConstruction == max_batch = 0 => submitted = << >>

\* C23: every step that invokes the network is a step of serve closing its
\* batch, it makes one forward_t call, and no handle moves in it.
C23_Step ==
    (batches' # batches \/ invocations' # invocations) =>
        /\ spc = "closed"
        /\ invocations' = invocations + 1
        /\ Len(batches') = Len(batches) + 1
        /\ SubSeq(batches', 1, Len(batches)) = batches
        /\ UNCHANGED << hstate, hcalls, hresult, task_chan, submitted >>

\* C23: the network has been called once per recorded batch, and only on
\* tensors that a handle has sent through the task channel.
C23_State ==
    /\ invocations = Len(batches)
    /\ \A b \in 1..Len(batches) : \A i \in 1..Len(batches[b]) :
           \E k \in 1..Len(submitted) : submitted[k] = batches[b][i]
    /\ \A h \in Handles : IsSome(hresult[h]) =>
           \E b \in 1..Len(batches) : \E i \in 1..Len(batches[b]) :
               Unwrap(hresult[h]) = NetOut(batches[b][i])

\* C23: the network is invoked by serve alone, one call at a time, and the
\* tasks reach it only through the requests their handles send.
C23_ModelOnlyInServe == []C23_State /\ [][C23_Step]_vars

\* C23: two tasks are inside execute at once and the network has run.
C23_Witness ==
    /\ \A h \in Handles : hstate[h] = "waiting"
    /\ invocations > 0

\* A task has dropped its handle with its request pending.
SomeGaveUp == \E h \in Handles : tend[h] = "gave_up"

\* C25, as stated: a handle dropped with its request enqueued or in a batch
\* costs a delivery task at most: serve itself does not fail, and its
\* caller is not told.
C25_ServeSurvivesDroppedHandle ==
    (max_batch > 0 /\ SomeGaveUp) =>
        /\ spc # "panicked"
        /\ scope_st # "join_unwrap_failed"

(***************************************************************************)
(*                      Claims about BoardState                            *)
(***************************************************************************)

\* The lines of five cells on the board, as a first cell and a step.
FiveLines ==
    { l \in (0..(N - 1)) \X (0..(N - 1)) \X { << 0, 1 >>, << 1, 0 >>, << 1, 1 >>, << 1, -1 >> } :
        /\ l[1] + 4 * l[3][1] \in 0..(N - 1)
        /\ l[2] + 4 * l[3][2] \in 0..(N - 1) }

CellsOf(l) == { << l[1] + k * l[3][1], l[2] + k * l[3][2] >> : k \in 0..4 }

\* The lines all of whose cells are p's on b.
LinesOf(b, p) == { l \in FiveLines : \A c \in CellsOf(l) : Index(b, c[1], c[2]) = p }

HasFive(b, p) == LinesOf(b, p) # { }

\* C27: is_win has returned the player who has five cells in a line, and
\* Empty when nobody has.
C27_State ==
    /\ \A p \in { "X", "O" } : HasFive(board, p) => won = p
    /\ (~HasFive(board, "X") /\ ~HasFive(board, "O")) => won = "Empty"

\* C27: flipping the players swaps what is_win returns, and a set_inplace
\* that takes a cell of the only line of five away from its player makes
\* is_win return Empty.
C27_Step ==
    /\ board' = flip_players(board) => won' = Other(won)
    /\ \A p \in { "X", "O" } :
           (/\ Cardinality(LinesOf(board, p)) = 1
            /\ \E c \in UNION { CellsOf(l) : l \in LinesOf(board, p) } :
                   \E cell \in { "Empty", Other(p) } :
                       board' = set_inplace(board, c[1], c[2], cell))
           => won' = "Empty"

\* C27: is_win returns the player with five consecutive cells in a row, a
\* column or a diagonal, wherever on the board, and Empty without such a
\* line; breaking the only line gives Empty again; flip_players swaps the
\* winner.
C27_IsWin == []C27_State /\ [][C27_Step]_vars

\* C27 witness: O, after a flip, holds the diagonal that ends in the last
\* cell of the board.
C27_Witness ==
    /\ won = "O"
    /\ line[1] = << 14, 14 >>
    /\ line[5] = << N - 1, N - 1 >>
    /\ LinesOf(board, "O") = { << 14, 14, << 1, 1 >> >> }

\* The empty cells of b.
EmptySet(b) == { c \in (0..(N - 1)) \X (0..(N - 1)) : Index(b, c[1], c[2]) = "Empty" }

\* The place of a cell in row-major order.
RowMajorRank(c) == c[1] * N + c[2]

\* C28: get_state has returned Terminal(1.0) for a line of X, Terminal(0.0)
\* for a line of O, Terminal(0.5) exactly for a full board without a line,
\* and otherwise Moves with every empty cell once, in row-major order.
C28_State ==
    LET t == termination
        draw == [kind |-> "Terminal", value |-> << 1, 2 >>]
    IN  /\ HasFive(board, "X") => t = [kind |-> "Terminal", value |-> << 1, 1 >>]
        /\ HasFive(board, "O") => t = [kind |-> "Terminal", value |-> << 0, 1 >>]
        /\ t = draw <=> (/\ EmptySet(board) = { }
                         /\ ~HasFive(board, "X")
                         /\ ~HasFive(board, "O"))
        /\ (~HasFive(board, "X") /\ ~HasFive(board, "O") /\ EmptySet(board) # { }) =>
               /\ t.kind = "Moves"
               /\ Len(t.moves) = Cardinality(EmptySet(board))
               /\ \A n \in 1..Len(t.moves) :
                      /\ t.moves[n].move \in EmptySet(board)
                      /\ t.moves[n].player_switch
               /\ \A n \in 1..(Len(t.moves) - 1) :
                      RowMajorRank(t.moves[n].move) < RowMajorRank(t.moves[n + 1].move)

\* C28 witness: a full board without a line, one of its cells set to the
\* other player than on the board of tic_tac_toe_draw, and get_state has
\* returned Terminal(0.5).
C28_Witness ==
    /\ termination = [kind |-> "Terminal", value |-> << 1, 2 >>]
    /\ Index(board, line[1][1], line[1][2]) = "X"
    /\ \E k \in Open :
           Index(board, line[k][1], line[k][2]) # Index(DrawBoard, line[k][1], line[k][2])

\* C26, as stated: with a score that is a NaN or infinite among the
\* children's, pick_next_move panics instead of returning an index.
C26_NonFiniteScoreIsFatal ==
    (IsSome(picked) /\ \E i \in 1..Len(scores) : scores[i].k # "finite") =>
        Unwrap(picked).panicked

(***************************************************************************)
(*                      Claims about node expansion                        *)
(***************************************************************************)

\* What Game::get_state says of the game state of node i.
StatusOf(i) == Game_get_state(game, nodes[i].game_state)

\* The NodeState of a terminal node.
TerminalNodeState(i) ==
    Some([value |-> StatusOf(i).value, is_terminal |-> TRUE, children |-> << >>])

\* C29: the step of a simulation at a node whose game state is terminal
\* sends no request, appends no node, leaves the node with the terminal
\* NodeState (publishing it on the first visit), changes no other node and
\* starts the unwinding with the terminal score.
C29_Step ==
    (mpc = "sim" /\ StatusOf(cur).terminal) =>
        /\ requests' = requests
        /\ Len(nodes') = Len(nodes)
        /\ nodes'[cur].node_state = TerminalNodeState(cur)
        /\ \A i \in 1..Len(nodes) : i # cur => nodes'[i] = nodes[i]
        /\ value' = StatusOf(cur).value
        /\ mpc' = "unwind"

\* C29: every terminal node that has its NodeState has the terminal one,
\* and while a simulation that ended at a terminal node is unwound the tree
\* has the nodes it had when the simulation started and every edge unwound
\* so far has received the terminal score, inverted once per player_switch
\* edge from it down to the leaf.
C29_State ==
    /\ \A i \in 1..Len(nodes) :
           (IsSome(node_state(i)) /\ StatusOf(i).terminal) =>
               node_state(i) = TerminalNodeState(i)
    /\ (mpc = "unwind" /\ StatusOf(cur).terminal) =>
           /\ Len(nodes) = Len(sim_start)
           /\ \A k \in (Len(state_stack) + 1)..Len(sim_path) :
                  ScoreIn(nodes, sim_path[k][1], sim_path[k][2])
                      - ScoreIn(sim_start, sim_path[k][1], sim_path[k][2])
                  = InvertTimes(StatusOf(cur).value, SwitchesFrom(sim_path, k))

\* C29: expanding a terminal node sends no request and publishes the
\* terminal NodeState; a simulation reaching a terminal node, first visit or
\* later, backs up its terminal score and appends no node.
C29_TerminalExpansion == []C29_State /\ [][C29_Step]_vars

\* C29 witness: a simulation has come again to a terminal node that an
\* earlier one had expanded, and its score, which is not 0, is unwound.
C29_Witness ==
    /\ mpc = "unwind"
    /\ state_stack = << >>
    /\ sim_path # << >>
    /\ StatusOf(cur).terminal
    /\ ~sim_expanded
    /\ StatusOf(cur).value # 0

\* C30: a request is sent only by the step at a non-terminal node without
\* NodeState, one request, the tree staying as it is; the step that takes
\* the answer sends none, gives the node one child per move in move order,
\* with no visit and no score, the move's player_switch and the network's
\* priority, child i being the i-th node appended in that step, with the
\* game state the move leads to and no NodeState; no other step appends.
C30_Step ==
    /\ requests' # requests =>
           /\ requests' = requests + 1
           /\ mpc = "sim" /\ mpc' = "await"
           /\ has_no_state(cur)
           /\ ~StatusOf(cur).terminal
           /\ nodes' = nodes
    /\ Len(nodes') # Len(nodes) => mpc = "await"
    /\ mpc = "await" =>
           LET moves == StatusOf(cur).moves
               n == Len(nodes)
               ch == EdgesOf(nodes', cur)
           IN  /\ requests' = requests
               /\ Len(nodes') = n + Len(moves)
               /\ Len(ch) = Len(moves)
               /\ ~Unwrap(nodes'[cur].node_state).is_terminal
               /\ \A i \in 1..Len(moves) :
                      /\ ch[i] = [node |-> n + i,
                                  priority |-> Net_policy(net, moves)[i],
                                  player_switch |-> moves[i].player_switch,
                                  total_score |-> 0, descends |-> 0]
                      /\ nodes'[n + i] =
                             [game_state |-> Game_make_move(nodes[cur].game_state, moves[i]),
                              node_state |-> None]
               /\ \A i \in 1..n : i # cur => nodes'[i] = nodes[i]

\* The edges of the tree, as << parent, number of the child >>.
AllEdges == { e \in (1..Len(nodes)) \X (1..MaxWidth + 1) : e[2] <= Len(EdgesOf(nodes, e[1])) }

ChildNode(e) == EdgesOf(nodes, e[1])[e[2]].node

\* C30: whenever a node has its NodeState its children are in the tree:
\* every child index is the index of a node appended after its parent, no
\* two edges lead to the same node, and every node but the first is the
\* child of exactly one edge.
C30_State ==
    /\ \A e \in AllEdges : ChildNode(e) \in (e[1] + 1)..Len(nodes)
    /\ \A e, f \in AllEdges : ChildNode(e) = ChildNode(f) => e = f
    /\ \A i \in 2..Len(nodes) : \E e \in AllEdges : ChildNode(e) = i
    /\ \A e \in AllEdges : ChildNode(e) # 1

\* C30: expanding a non-terminal node takes one request and one step that
\* creates all children and their nodes together.
C30_Expansion == []C30_State /\ [][C30_Step]_vars

\* C30 witness: two nodes have been expanded, each with two children.
C30_Witness ==
    /\ Len(EdgesOf(nodes, 1)) = 2
    /\ \E i \in 2..Len(nodes) : Len(EdgesOf(nodes, i)) = 2
    /\ requests = 2
    /\ mpc = "unwind"

(***************************************************************************)
(*                 Claims about the course of a simulation                 *)
(***************************************************************************)

\* The execute calls of the current simulation and of the current
\* do_simulations call.
SimRequestsMade == requests - sim_requests

CallRequestsMade == requests - call_requests

\* C31: a simulation descends only from a node that had its NodeState, not
\* terminal, before the simulation started; at a node without NodeState or a
\* terminal one it stays, and when it starts unwinding, the node it is at
\* is one it has expanded itself or a terminal one, and `value` is that
\* node's value.
C31_Step ==
    /\ (mpc = "sim" /\ mpc' = "sim" /\ cur' # cur) =>
           /\ ~sim_expanded
           /\ IsSome(sim_start[cur].node_state)
           /\ ~Unwrap(node_state(cur)).is_terminal
           /\ nodes' = nodes
    /\ (mpc = "sim" /\ (has_no_state(cur) \/ Unwrap(node_state(cur)).is_terminal)) =>
           /\ cur' = cur
           /\ mpc' \in { "await", "unwind" }
    /\ (mpc \in { "sim", "await" } /\ mpc' = "unwind") =>
           /\ cur' = cur
           /\ state_stack' = state_stack
           /\ value' = Unwrap(nodes'[cur].node_state).value
           /\ \/ ~IsSome(sim_start[cur].node_state)
              \/ Unwrap(node_state(cur)).is_terminal

\* C31: a simulation has made no request while it descends, one while it
\* waits for the answer, and when it unwinds one if it ended at a node that
\* is not terminal and none if it ended at a terminal one; a do_simulations
\* call has made at most one request per simulation begun, and at most n
\* when its n simulations are over.
C31_State ==
    /\ mpc = "sim" => SimRequestsMade = 0
    /\ mpc = "await" => SimRequestsMade = 1
    /\ mpc = "unwind" =>
           SimRequestsMade = IF Unwrap(node_state(cur)).is_terminal THEN 0 ELSE 1
    /\ mpc \in { "sim", "await", "unwind" } =>
           /\ sims_done < samples
           /\ CallRequestsMade <= sims_done + SimRequestsMade
    /\ mpc = "simulated" =>
           /\ sims_done = samples
           /\ CallRequestsMade <= samples

\* C31: every simulation stops at the first node it expands or that is
\* terminal, backs up that node's value and makes at most one request, so
\* that do_simulations(n) makes at most n.
C31_OneRequestPerSimulation == []C31_State /\ [][C31_Step]_vars

\* C31 witness: a do_simulations call of three simulations is over, of which
\* some ended at a node they expanded with a request and some at a terminal
\* node.
C31_Witness ==
    /\ mpc = "simulated"
    /\ samples = 3
    /\ CallRequestsMade \in 1..2
    /\ \E i \in 1..Len(nodes) :
           IsSome(node_state(i)) /\ Unwrap(node_state(i)).is_terminal

(***************************************************************************)
(*                Claims about requests and their answers                  *)
(***************************************************************************)

\* How many elements of the sequence q satisfy P.
Count(q, P(_)) == Cardinality({ k \in 1..Len(q) : P(q[k]) })

\* The rows of delivery task t that it has not sent.
Unsent(t) == { k \in response_tasks[t].i..Len(response_tasks[t].responses) :
                   response_tasks[t].status # "finished" }

\* The requests of handle h that are enqueued, in buf, in a batch whose row
\* for h is not sent, or answered with the answer not yet received.
Outstanding(h) ==
    LET from(r) == r.send = h
    IN  Count(task_chan, from) + Count(buf, from)
        + SumSeq([t \in 1..Len(response_tasks) |->
                     Cardinality({ k \in Unsent(t) : response_tasks[t].responses[k] = h })])
        + Len(result_chan[h])

\* C32: every handle has at most one request outstanding, none when it is
\* not inside execute; its channel(1) holds at most one
\* answer; and the handle a delivery task sends to next, if it is there,
\* has room in its channel, so that the send does not wait.
C32_OneRequestPerHandle ==
    /\ \A h \in Handles :
           /\ Outstanding(h) <= 1
           /\ hstate[h] = "idle" => Outstanding(h) = 0
           /\ Len(result_chan[h]) <= 1
    /\ \A t \in 1..Len(response_tasks) :
           (response_tasks[t].status = "running" /\ hstate[DeliveryTarget(t)] # "dropped")
               => result_chan[DeliveryTarget(t)] = << >>

\* C32 witness: a handle whose first call has returned has the answer to its
\* second call in its channel.
C32_Witness ==
    \E h \in Handles :
        /\ hcalls[h] = 2
        /\ hstate[h] = "waiting"
        /\ Len(result_chan[h]) = 1

(***************************************************************************)
(*               Claims about the tasks of a scope being joined            *)
(***************************************************************************)

\* The step is a call of next that returned.
NextReturned == ops' = ops + 1 /\ last_op'.name = "next"

\* next returns Some(t) for a task whose JoinHandle is ready, which leaves
\* results for good; it returns None exactly when results is empty, and
\* then len() = 0; no task is yielded twice.
C40_Step ==
    /\ NextReturned =>
           IF ScopeLen = 0
           THEN /\ last_op'.ret = None
                /\ ScopeLen' = 0
           ELSE /\ IsSome(last_op'.ret)
                /\ tstate[Unwrap(last_op'.ret)] = "finished"
                /\ tstate' = [tstate EXCEPT ![Unwrap(last_op'.ret)] = "taken"]
                /\ ScopeLen' = ScopeLen - 1
    /\ \A t \in Tasks :
           /\ tstate[t] = "taken" => tstate'[t] = "taken"
           /\ (tstate[t] # "taken" /\ tstate'[t] = "taken") =>
                  NextReturned /\ last_op'.ret = Some(t)

\* C40: when no task panics, every running task finishes and next is called
\* again and again, every spawned task gets a permit and runs, and its
\* result is yielded by next, once; next returns Some once per spawned task
\* and None when none is left, and then len() = 0.
C40_EveryTaskRunsAndIsYielded ==
    /\ \A t \in Tasks : (tstate[t] = "queued") ~> (tstate[t] = "running")
    /\ \A t \in Tasks : (tstate[t] = "queued") ~> (tstate[t] = "taken")
    /\ [][C40_Step]_vars

\* C40 witness: two tasks were spawned on a scope of one permit, both were
\* yielded by next, and the next call returned None.
C40_Witness ==
    /\ initial_parallelism = 1
    /\ deltas = << >>
    /\ Cardinality({ t \in Tasks : tstate[t] = "taken" }) = 2
    /\ ScopeLen = 0
    /\ last_op = [name |-> "next", ret |-> None]

(***************************************************************************)
(*                 Claims about a delivery that fails                      *)
(***************************************************************************)

\* The rows of delivery task t after the one it stands at.
RowsAfter(t) == (response_tasks[t].i + 1)..Len(response_tasks[t].responses)

\* C39, as stated: a failed delivery to a dropped handle does not starve
\* the others: no delivery task that has failed leaves a row of its batch
\* unsent whose handle is alive and waiting inside execute.
C39_FailedDeliverySparesOthers ==
    \A t \in 1..Len(response_tasks) :
        response_tasks[t].status = "panicked" =>
            \A k \in RowsAfter(t) :
                hstate[response_tasks[t].responses[k]] # "waiting"

(***************************************************************************)
(*                    Claims about the visit counts                        *)
(***************************************************************************)

\* No simulation is under way: do_simulations has not been called, has
\* returned, or stands at the head of an iteration of `for _ in 0..n`.
BetweenSimulations ==
    \/ mpc \in { "loop", "simulated", "sampling", "game_over" }
    \/ mpc = "sim" /\ state_stack = << >> /\ cur = sim_state /\ ~sim_expanded

\* The sum of descends over the edges of node i.
EdgeSum(i) ==
    SumSeq([k \in 1..Len(EdgesOf(nodes, i)) |-> EdgesOf(nodes, i)[k].descends])

\* Edge e is consistent with its child node.
EdgeConsistent(e) ==
    /\ (e.descends = 0) <=> has_no_state(e.node)
    /\ (~has_no_state(e.node) /\ ~Unwrap(node_state(e.node)).is_terminal) =>
           e.descends = 1 + EdgeSum(e.node)

\* C38: between simulations, every edge at or below the node the
\* simulations start from has visits 0 exactly when its child is unexpanded,
\* and visits = 1 + the visits of the child's own edges when the child is
\* expanded and not terminal; after n simulations from a fresh root, whose
\* first simulation only expands it, the visits of the root's edges sum to
\* n - 1.
C38_VisitCountsConsistent ==
    BetweenSimulations =>
        /\ \A i \in Subtree(nodes, state_id) :
               \A k \in 1..Len(EdgesOf(nodes, i)) :
                   EdgeConsistent(EdgesOf(nodes, i)[k])
        /\ (call_fresh /\ mpc \in { "sim", "simulated", "sampling" } /\ sims_done >= 1) =>
               EdgeSum(sim_state) = sims_done - 1

\* C38 witness: three simulations from a fresh root have been made; one of
\* its edges was taken twice and leads to an expanded, non-terminal child
\* one of whose own edges was taken.
C38_Witness ==
    /\ mpc = "simulated"
    /\ call_fresh
    /\ sims_done = 3
    /\ \E k \in 1..Len(EdgesOf(nodes, state_id)) :
           LET e == EdgesOf(nodes, state_id)[k]
           IN  /\ e.descends = 2
               /\ ~has_no_state(e.node)
               /\ ~Unwrap(node_state(e.node)).is_terminal
               /\ EdgeSum(e.node) = 1

(***************************************************************************)
(*                  Claims about the size of the batches                   *)
(***************************************************************************)

\* Every batch handed to the model is non-empty; whenever serve is at its
\* select the buffer holds fewer requests than the ceiling, so that
\* max_batch - buf.len() is at least 1; outside a window the buffer is empty.
C37_State ==
    /\ \A i \in 1..Len(batches) : Len(batches[i]) >= 1
    /\ Len(batches) = invocations
    /\ spc = "select" => RecvLimit(max_batch, Len(buf)) >= 1
    /\ spc \in { "wait_resp", "drain" } => buf = << >>

\* The buffer only grows by a receive, up to the ceiling in effect at that
\* receive; the batch handed to the model is the buffer as it stands when
\* the window closes; a window starts with an empty buffer.
C37_Step ==
    /\ Len(buf') > Len(buf) =>
           /\ spc = "select"
           /\ Len(buf') <= max_batch
           /\ max_batch' = max_batch
    /\ batches' # batches =>
           /\ buf # << >>
           /\ Len(batches'[Len(batches')]) = Len(buf)
    /\ (spc # "select" /\ spc' = "select") => buf' = << >>
    /\ (max_batch' # max_batch /\ Len(buf) >= max_batch') => spc' = "closed"

\* C37: every Model call is made on a non-empty batch, the buffer is empty
\* at the start of every window, and a batch is no larger than the ceiling
\* in effect when its last request was received, hence no larger than the
\* largest ceiling of its window; a SetBatchSize at or below the number of
\* buffered requests closes the batch at once, and max_batch - buffered is
\* never taken with buffered > max_batch.
C37_BatchWithinCeiling == []C37_State /\ [][C37_Step]_vars

\* C37 witness: two requests are buffered under a ceiling of 3 and a
\* SetBatchSize(1) has closed the batch at once.
C37_Witness ==
    /\ spc = "closed"
    /\ closed_by = "size"
    /\ cmd_seen
    /\ Len(buf) = 2
    /\ max_batch = 1

(***************************************************************************)
(*            Claims about the controller and the scheduler in step        *)
(***************************************************************************)

\* A SetBatchSize is pending: one lies in the command channel, or a send of
\* set_batch_size is still under way.
CommandPending ==
    \/ executor_cmd # << >>
    \/ last_op.name = "set_batch_size_sending"

\* The value of the command issued last and not yet applied.
LastIssued ==
    IF last_op.name = "set_batch_size_sending"
    THEN Unwrap(last_op.ret)
    ELSE executor_cmd[Len(executor_cmd)]

C35_State ==
    /\ ~CommandPending => max_batch = current_batch_size
    /\ CommandPending => LastIssued = current_batch_size
    /\ Len(executor_cmd) <= 1

C35_Step ==
    max_batch' # max_batch =>
        /\ executor_cmd # << >>
        /\ max_batch' = Head(executor_cmd)
        /\ executor_cmd' = Tail(executor_cmd)

\* C35: for a scope built by ExecutorScope::new, after any next,
\* increase_parallelism and set_batch_size calls, whenever no SetBatchSize
\* is pending the ceiling max_batch of serve equals current_batch_size of
\* the controller; the command issued last carries current_batch_size, and
\* serve applies the commands in the order they were sent.
C35_ControllerAndSchedulerInStep == []C35_State /\ [][C35_Step]_vars

\* C35 witness: set_batch_size has sent both of its commands, serve has
\* applied them, and the ceiling is the controller's new, lower size.
C35_Witness ==
    /\ last_op.name = "set_batch_size"
    /\ ~CommandPending
    /\ bsm_call.current = 2
    /\ bsm_ret = Some(1)
    /\ max_batch_size = 2
    /\ max_batch = 1
    /\ current_batch_size = 1

(***************************************************************************)
(*                 Claims about the values of the controller               *)
(***************************************************************************)

\* C36: after any calls of on_task_count_change(tasks >= 0) and
\* change_max_batch_size(new_max >= 1) on a controller created with
\* max >= 1, 1 <= current_batch_size <= max_batch_size, and a value the
\* controller returns, which the scope sends as SetBatchSize, is the new
\* current_batch_size and so lies in 1..max_batch_size: never 0.
C36_CurrentWithinBounds ==
    /\ 1 <= current_batch_size
    /\ current_batch_size <= max_batch_size
    /\ IsSome(bsm_ret) =>
           /\ Unwrap(bsm_ret) = current_batch_size
           /\ Unwrap(bsm_ret) \in 1..max_batch_size

\* C36 witness: with current at 1 and no task the controller has shrunk to
\* max(floor(5 / 6), 1) = 1 and returned it.
C36_Witness ==
    /\ bsm_call.name = "on_task_count_change"
    /\ bsm_call.current = 1
    /\ bsm_call.arg = 0
    /\ bsm_ret = Some(1)
    /\ current_batch_size = 1

(***************************************************************************)
(*               Claims about the controller's hysteresis                  *)
(***************************************************************************)

\* The controller is at rest under the task count tasks: a call returns
\* None and leaves current as it is, and current is min(tasks, max) or lies
\* below tasks with tasks below the growth threshold.
AtRest(tasks) ==
    LET r == on_task_count_change(current_batch_size, max_batch_size, tasks)
    IN  /\ r.ret = None
        /\ r.current = current_batch_size
        /\ current_batch_size <= tasks
        /\ \/ current_batch_size = Min(tasks, max_batch_size)
           \/ tasks < Min(max_batch_size,
                          CeilDiv(current_batch_size * RatioDenom, RatioNum))

HeldAtRest == IsSome(held) /\ AtRest(Unwrap(held))

\* C33: once the task count stands at some tasks >= 1, the repeated calls
\* on_task_count_change(tasks) bring the controller, whatever current in
\* 1..max it had, to rest for good: from some call on every call returns
\* None and current stays, with current <= tasks.
C33_ComesToRest == IsSome(held) ~> []HeldAtRest

\* C33 witness: the controller has shrunk from 12 to 10 under 11 tasks and
\* rests there, below the task count and below the threshold 12.
C33_Witness ==
    /\ held = Some(11)
    /\ max_batch_size = 12
    /\ current_batch_size = 10
    /\ bsm_call = [name |-> "on_task_count_change", arg |-> 11,
                   current |-> 10, max |-> 12]
    /\ bsm_ret = None

\* C34: with no handle dropped inside execute, every forward_t call
\* returning, the deadline of a window elapsing and serve, the delivery tasks
\* and the callers running when they can, every execute call returns:
\* a handle that waits for its answer gets it, whatever the ceiling, the
\* number of callers and the SetBatchSize commands in between.
C34_EveryExecuteReturns ==
    \A h \in Handles :
        (hstate[h] = "waiting") ~> (hstate[h] = "idle" /\ IsSome(hresult[h]))

\* C34 witness: a handle has its answer from a batch of one that the
\* deadline closed under a ceiling of two, a SetBatchSize having been
\* consumed before.
C34_Witness ==
    /\ max_batch = 2
    /\ cmd_seen
    /\ Len(batches) = 1
    /\ Len(batches[1]) = 1
    /\ partial_closed
    /\ \E h \in Handles : hstate[h] = "idle" /\ hresult[h] = Some(NetOut(<< h, 1 >>))

(***************************************************************************)
(*                          Specifications                                *)
(***************************************************************************)

\* The components a specification does not run stay as constructed.
ParkedBSM == BatchSizeManager_new(1)

ParkedSched == NetworkBatchedExecutor_new(1)

ParkedScope == ScopeFields_new(1)

ParkedMcts ==
    MonteCarloTree_new([width |-> 1, depth |-> 1, switch |-> "none", score |-> 0],
                       [bias |-> 0, prior |-> "uniform"], 1, << 1, 32 >>)

InitSpecBSM == InitBSM /\ ParkedMcts /\ ParkedSched /\ ParkedScope /\ ParkedLife /\ ParkedBoard /\ ParkedPick
    /\ ParkedHold

NextBSM ==
    \/ BsmOnTaskCountChange /\ UNCHANGED << mctsVars, schedVars, scopeVars, lifeVars, boardVars, pickVars, holdVars >>
    \/ BsmChangeMaxBatchSize /\ UNCHANGED << mctsVars, schedVars, scopeVars, lifeVars, boardVars, pickVars, holdVars >>

SpecBSM == InitSpecBSM /\ [][NextBSM]_vars

InitSpecMcts == InitMcts /\ ParkedBSM /\ ParkedSched /\ ParkedScope /\ ParkedLife /\ ParkedBoard /\ ParkedPick
    /\ ParkedHold

NextMcts ==
    \/ GameOver /\ UNCHANGED << bsmVars, schedVars, scopeVars, lifeVars, boardVars, pickVars, holdVars >>
    \/ DoSimulations /\ UNCHANGED << bsmVars, schedVars, scopeVars, lifeVars, boardVars, pickVars, holdVars >>
    \/ Descend /\ UNCHANGED << bsmVars, schedVars, scopeVars, lifeVars, boardVars, pickVars, holdVars >>
    \/ ReachTerminal /\ UNCHANGED << bsmVars, schedVars, scopeVars, lifeVars, boardVars, pickVars, holdVars >>
    \/ ExpandTerminal /\ UNCHANGED << bsmVars, schedVars, scopeVars, lifeVars, boardVars, pickVars, holdVars >>
    \/ ExpandRequest /\ UNCHANGED << bsmVars, schedVars, scopeVars, lifeVars, boardVars, pickVars, holdVars >>
    \/ ExecuteReturn /\ UNCHANGED << bsmVars, schedVars, scopeVars, lifeVars, boardVars, pickVars, holdVars >>
    \/ Backprop /\ UNCHANGED << bsmVars, schedVars, scopeVars, lifeVars, boardVars, pickVars, holdVars >>
    \/ EndSimulation /\ UNCHANGED << bsmVars, schedVars, scopeVars, lifeVars, boardVars, pickVars, holdVars >>
    \/ GetPolicy /\ UNCHANGED << bsmVars, schedVars, scopeVars, lifeVars, boardVars, pickVars, holdVars >>
    \/ GetNextState /\ UNCHANGED << bsmVars, schedVars, scopeVars, lifeVars, boardVars, pickVars, holdVars >>
    \/ SamplePanic /\ UNCHANGED << bsmVars, schedVars, scopeVars, lifeVars, boardVars, pickVars, holdVars >>

SpecMcts == InitSpecMcts /\ [][NextMcts]_vars

Init == InitSched /\ ParkedBSM /\ ParkedMcts /\ ParkedScope /\ ParkedLife /\ ParkedBoard /\ ParkedPick
    /\ ParkedHold

Next ==
    \/ \E h \in Handles : Execute(h) /\ UNCHANGED << bsmVars, mctsVars, scopeVars, lifeVars, boardVars, pickVars, holdVars >>
    \/ \E h \in Handles : Receive(h) /\ UNCHANGED << bsmVars, mctsVars, scopeVars, lifeVars, boardVars, pickVars, holdVars >>
    \/ \E h \in Handles : DropHandle(h) /\ UNCHANGED << bsmVars, mctsVars, scopeVars, lifeVars, boardVars, pickVars, holdVars >>
    \/ \E s \in 1..MaxBatch : SendSetBatchSize(s) /\ UNCHANGED << bsmVars, mctsVars, scopeVars, lifeVars, boardVars, pickVars, holdVars >>
    \/ ScopeJoin /\ UNCHANGED << bsmVars, mctsVars, scopeVars, lifeVars, boardVars, pickVars, holdVars >>
    \/ SelectDeadline /\ UNCHANGED << bsmVars, mctsVars, scopeVars, lifeVars, boardVars, pickVars, holdVars >>
    \/ SelectRecv /\ UNCHANGED << bsmVars, mctsVars, scopeVars, lifeVars, boardVars, pickVars, holdVars >>
    \/ SelectRecvClosed /\ UNCHANGED << bsmVars, mctsVars, scopeVars, lifeVars, boardVars, pickVars, holdVars >>
    \/ SelectCmd /\ UNCHANGED << bsmVars, mctsVars, scopeVars, lifeVars, boardVars, pickVars, holdVars >>
    \/ SelectCmdClosed /\ UNCHANGED << bsmVars, mctsVars, scopeVars, lifeVars, boardVars, pickVars, holdVars >>
    \/ CloseBatch /\ UNCHANGED << bsmVars, mctsVars, scopeVars, lifeVars, boardVars, pickVars, holdVars >>
    \/ WaitResponse /\ UNCHANGED << bsmVars, mctsVars, scopeVars, lifeVars, boardVars, pickVars, holdVars >>
    \/ DrainResponse /\ UNCHANGED << bsmVars, mctsVars, scopeVars, lifeVars, boardVars, pickVars, holdVars >>
    \/ ServeReturn /\ UNCHANGED << bsmVars, mctsVars, scopeVars, lifeVars, boardVars, pickVars, holdVars >>
    \/ \E t \in 1..(MAX_PAR_RESPS + 1) : Deliver(t) /\ UNCHANGED << bsmVars, mctsVars, scopeVars, lifeVars, boardVars, pickVars, holdVars >>

\* The scheduler with its handles and delivery tasks.
Spec == Init /\ [][Next]_vars

InitSpecScope ==
    InitScope /\ ServeSpawned /\ ParkedMcts /\ ParkedLife /\ ParkedBoard /\ ParkedPick
    /\ ParkedHold

NextScope ==
    \/ \E t \in Tasks : Spawn(t) /\ UNCHANGED << mctsVars, schedVars, lifeVars, boardVars, pickVars, holdVars >>
    \/ \E t \in Tasks : TaskAcquire(t) /\ UNCHANGED << mctsVars, schedVars, lifeVars, boardVars, pickVars, holdVars >>
    \/ \E t \in Tasks : TaskFinish(t) /\ UNCHANGED << mctsVars, schedVars, lifeVars, boardVars, pickVars, holdVars >>
    \/ \E delta \in 1..MaxTokens : IncreaseParallelism(delta) /\ UNCHANGED << mctsVars, schedVars, lifeVars, boardVars, pickVars, holdVars >>
    \/ ScopeNextNone /\ UNCHANGED << mctsVars, schedVars, lifeVars, boardVars, pickVars, holdVars >>
    \/ \E t \in Tasks : ScopeNextSome(t) /\ UNCHANGED << mctsVars, schedVars, lifeVars, boardVars, pickVars, holdVars >>
    \/ \E t \in Tasks : TaskPanics(t) /\ UNCHANGED << mctsVars, schedVars, lifeVars, boardVars, pickVars, holdVars >>
    \/ \E t \in Tasks : ScopeNextPanics(t) /\ UNCHANGED << mctsVars, schedVars, lifeVars, boardVars, pickVars, holdVars >>
    \/ \E batch_size \in 1..MaxScopeBatch : SetBatchSize(batch_size) /\ UNCHANGED << mctsVars, schedVars, lifeVars, boardVars, pickVars, holdVars >>
    \/ SetBatchSizeSecondSend /\ UNCHANGED << mctsVars, schedVars, lifeVars, boardVars, pickVars, holdVars >>
    \/ ServeAppliesCommand /\ UNCHANGED << mctsVars, lifeVars, boardVars, pickVars, holdVars >>

\* The scope with its tasks, its permits and its controller.
SpecScope == InitSpecScope /\ [][NextScope]_vars

\* Of the MaxOps calls followed, enough are left after `calls` more of them
\* for next to take every task in results.
CallsLeftToJoin(calls) == ops + calls + ScopeLen <= MaxOps

\* The scope whose tasks do not panic, joined by its caller: a spawn (the
\* call and the next that takes its task) or an increase_parallelism is
\* made only while the calls of next that take the spawned tasks can all be
\* followed.
NextJoin ==
    \/ \E t \in Tasks : (CallsLeftToJoin(2) /\ Spawn(t)) /\ UNCHANGED << mctsVars, schedVars, lifeVars, boardVars, pickVars, holdVars >>
    \/ \E t \in Tasks : TaskAcquire(t) /\ UNCHANGED << mctsVars, schedVars, lifeVars, boardVars, pickVars, holdVars >>
    \/ \E t \in Tasks : TaskFinish(t) /\ UNCHANGED << mctsVars, schedVars, lifeVars, boardVars, pickVars, holdVars >>
    \/ \E delta \in 1..MaxTokens : (CallsLeftToJoin(1) /\ IncreaseParallelism(delta)) /\ UNCHANGED << mctsVars, schedVars, lifeVars, boardVars, pickVars, holdVars >>
    \/ ScopeNextNone /\ UNCHANGED << mctsVars, schedVars, lifeVars, boardVars, pickVars, holdVars >>
    \/ \E t \in Tasks : ScopeNextSome(t) /\ UNCHANGED << mctsVars, schedVars, lifeVars, boardVars, pickVars, holdVars >>
    \/ ServeAppliesCommand /\ UNCHANGED << mctsVars, lifeVars, boardVars, pickVars, holdVars >>

\* A queued task that finds a permit free takes it (tokio's Semaphore hands
\* its permits out in the order of the requests); a running task finishes;
\* the caller calls next; serve comes back to its select and takes the
\* command.
SpecJoin ==
    /\ InitSpecScope
    /\ [][NextJoin]_vars
    /\ \A t \in Tasks : WF_vars(TaskAcquire(t) /\ UNCHANGED << mctsVars, schedVars, lifeVars, boardVars, pickVars, holdVars >>)
    /\ \A t \in Tasks : WF_vars(TaskFinish(t) /\ UNCHANGED << mctsVars, schedVars, lifeVars, boardVars, pickVars, holdVars >>)
    /\ WF_vars((\E t \in Tasks : ScopeNextSome(t)) /\ UNCHANGED << mctsVars, schedVars, lifeVars, boardVars, pickVars, holdVars >>)
    /\ WF_vars(ServeAppliesCommand /\ UNCHANGED << mctsVars, lifeVars, boardVars, pickVars, holdVars >>)

InitSpecLife ==
    InitLife /\ ParkedBSM /\ ParkedMcts /\ ParkedScope /\ ParkedBoard /\ ParkedPick
    /\ ParkedHold

\* What serve does outside its select.
ServeProgress ==
    (ServeStart \/ ((CloseBatch \/ WaitResponse \/ DrainResponse) /\ UNCHANGED lifeVars)
       \/ ServeReturnsNet)
    /\ UNCHANGED << bsmVars, mctsVars, scopeVars, boardVars, pickVars, holdVars >>

\* The recv_many branch of the select.
RecvBranch ==
    ((SelectRecv /\ UNCHANGED lifeVars) \/ RecvClosed)
    /\ UNCHANGED << bsmVars, mctsVars, scopeVars, boardVars, pickVars, holdVars >>

\* What the delivery tasks do.
DeliveryProgress ==
    (\E t \in 1..(MAX_PAR_RESPS + 1) : DeliverSent(t) \/ DeliverFails(t))
    /\ UNCHANGED << bsmVars, mctsVars, scopeVars, boardVars, pickVars, holdVars >>

\* What join does once serve has ended.
JoinProgress ==
    (JoinReturns \/ JoinUnwrapFails) /\ UNCHANGED << bsmVars, mctsVars, scopeVars, boardVars, pickVars, holdVars >>

NextLife ==
    \/ ServeStart /\ UNCHANGED << bsmVars, mctsVars, scopeVars, boardVars, pickVars, holdVars >>
    \/ \E h \in Handles : ExecuteSent(h) /\ UNCHANGED << bsmVars, mctsVars, scopeVars, boardVars, pickVars, holdVars >>
    \/ \E h \in Handles : ExecuteFails(h) /\ UNCHANGED << bsmVars, mctsVars, scopeVars, boardVars, pickVars, holdVars >>
    \/ \E h \in Handles : Receive(h) /\ UNCHANGED << bsmVars, mctsVars, scopeVars, lifeVars, boardVars, pickVars, holdVars >>
    \/ \E h \in Handles : TaskReturns(h) /\ UNCHANGED << bsmVars, mctsVars, scopeVars, boardVars, pickVars, holdVars >>
    \/ \E h \in Handles : Abandon(h) /\ UNCHANGED << bsmVars, mctsVars, scopeVars, boardVars, pickVars, holdVars >>
    \/ \E s \in 1..MaxBatch : CommandSent(s) /\ UNCHANGED << bsmVars, mctsVars, scopeVars, boardVars, pickVars, holdVars >>
    \/ CommandFails /\ UNCHANGED << bsmVars, mctsVars, scopeVars, boardVars, pickVars, holdVars >>
    \/ \E h \in Handles : NextYields(h) /\ UNCHANGED << bsmVars, mctsVars, scopeVars, boardVars, pickVars, holdVars >>
    \/ \E h \in Handles : NextFails(h) /\ UNCHANGED << bsmVars, mctsVars, scopeVars, boardVars, pickVars, holdVars >>
    \/ Join /\ UNCHANGED << bsmVars, mctsVars, scopeVars, boardVars, pickVars, holdVars >>
    \/ JoinAssertFails /\ UNCHANGED << bsmVars, mctsVars, scopeVars, boardVars, pickVars, holdVars >>
    \/ JoinReturns /\ UNCHANGED << bsmVars, mctsVars, scopeVars, boardVars, pickVars, holdVars >>
    \/ JoinUnwrapFails /\ UNCHANGED << bsmVars, mctsVars, scopeVars, boardVars, pickVars, holdVars >>
    \/ SelectDeadline /\ UNCHANGED << bsmVars, mctsVars, scopeVars, lifeVars, boardVars, pickVars, holdVars >>
    \/ SelectRecv /\ UNCHANGED << bsmVars, mctsVars, scopeVars, lifeVars, boardVars, pickVars, holdVars >>
    \/ RecvClosed /\ UNCHANGED << bsmVars, mctsVars, scopeVars, boardVars, pickVars, holdVars >>
    \/ SelectCmd /\ UNCHANGED << bsmVars, mctsVars, scopeVars, lifeVars, boardVars, pickVars, holdVars >>
    \/ SelectCmdClosed /\ UNCHANGED << bsmVars, mctsVars, scopeVars, lifeVars, boardVars, pickVars, holdVars >>
    \/ CloseBatch /\ UNCHANGED << bsmVars, mctsVars, scopeVars, lifeVars, boardVars, pickVars, holdVars >>
    \/ WaitResponse /\ UNCHANGED << bsmVars, mctsVars, scopeVars, lifeVars, boardVars, pickVars, holdVars >>
    \/ DrainResponse /\ UNCHANGED << bsmVars, mctsVars, scopeVars, lifeVars, boardVars, pickVars, holdVars >>
    \/ ServeReturnsNet /\ UNCHANGED << bsmVars, mctsVars, scopeVars, boardVars, pickVars, holdVars >>
    \/ \E t \in 1..(MAX_PAR_RESPS + 1) : DeliverSent(t) /\ UNCHANGED << bsmVars, mctsVars, scopeVars, boardVars, pickVars, holdVars >>
    \/ \E t \in 1..(MAX_PAR_RESPS + 1) : DeliverFails(t) /\ UNCHANGED << bsmVars, mctsVars, scopeVars, boardVars, pickVars, holdVars >>

\* The scope, its tasks and the scheduler task from ExecutorScope::new to
\* join.  serve, the delivery tasks and join are tokio tasks that run when
\* they can; select! picks among its ready branches at random, so a branch
\* that is ready again and again is taken.
SpecLife ==
    /\ InitSpecLife
    /\ [][NextLife]_vars
    /\ WF_vars(ServeProgress)
    /\ SF_vars(RecvBranch)
    /\ WF_vars(DeliveryProgress)
    /\ WF_vars(JoinProgress)

InitSpecBoard ==
    InitBoard /\ ParkedBSM /\ ParkedMcts /\ ParkedSched /\ ParkedScope /\ ParkedLife
    /\ ParkedPick /\ ParkedHold

NextBoard ==
    \/ \E k \in Open, cell \in { "Empty", "X", "O" } :
           SetInplace(k, cell)
           /\ UNCHANGED << bsmVars, mctsVars, schedVars, scopeVars, lifeVars, pickVars, holdVars >>
    \/ FlipPlayers /\ UNCHANGED << bsmVars, mctsVars, schedVars, scopeVars, lifeVars, pickVars, holdVars >>

\* A board under set_inplace and flip_players_inplace, is_win and get_state
\* called after each.
SpecBoard == InitSpecBoard /\ [][NextBoard]_vars

InitSpecPick ==
    InitPick /\ ParkedBSM /\ ParkedMcts /\ ParkedSched /\ ParkedScope /\ ParkedLife
    /\ ParkedBoard /\ ParkedHold

NextPick ==
    \/ PickNextMove
       /\ UNCHANGED << bsmVars, mctsVars, schedVars, scopeVars, lifeVars, boardVars, holdVars >>

\* pick_next_move on scores that need not be finite.
SpecPick == InitSpecPick /\ [][NextPick]_vars

InitSpecHold ==
    InitBSM /\ InitHold /\ ParkedMcts /\ ParkedSched /\ ParkedScope /\ ParkedLife
    /\ ParkedBoard /\ ParkedPick

NextHold ==
    \/ VaryingCall
       /\ UNCHANGED << mctsVars, schedVars, scopeVars, lifeVars, boardVars, pickVars >>
    \/ VaryingMax
       /\ UNCHANGED << mctsVars, schedVars, scopeVars, lifeVars, boardVars, pickVars >>
    \/ \E tasks \in 1..MaxTasksArg :
           Hold(tasks)
           /\ UNCHANGED << mctsVars, schedVars, scopeVars, lifeVars, boardVars, pickVars >>
    \/ HeldCall
       /\ UNCHANGED << mctsVars, schedVars, scopeVars, lifeVars, boardVars, pickVars >>

\* The controller called again and again with a task count that has come to
\* stand: the calls go on.
SpecHold ==
    /\ InitSpecHold
    /\ [][NextHold]_vars
    /\ WF_vars(HeldCall /\ UNCHANGED << mctsVars, schedVars, scopeVars, lifeVars,
                                        boardVars, pickVars >>)

\* What serve does outside its select.
ServeSteps ==
    (CloseBatch \/ WaitResponse \/ DrainResponse \/ ServeReturn)
    /\ UNCHANGED << bsmVars, mctsVars, scopeVars, lifeVars, boardVars, pickVars, holdVars >>

\* The deadline branch of the select.
DeadlineBranch ==
    SelectDeadline
    /\ UNCHANGED << bsmVars, mctsVars, scopeVars, lifeVars, boardVars, pickVars, holdVars >>

\* The recv_many branch of the select.
ReceiveBranch ==
    (SelectRecv \/ SelectRecvClosed)
    /\ UNCHANGED << bsmVars, mctsVars, scopeVars, lifeVars, boardVars, pickVars, holdVars >>

\* What the delivery tasks do.
DeliverySteps ==
    (\E t \in 1..(MAX_PAR_RESPS + 1) : Deliver(t))
    /\ UNCHANGED << bsmVars, mctsVars, scopeVars, lifeVars, boardVars, pickVars, holdVars >>

\* The caller of execute goes on when its answer is there.
CallerSteps(h) ==
    Receive(h)
    /\ UNCHANGED << bsmVars, mctsVars, scopeVars, lifeVars, boardVars, pickVars, holdVars >>

\* The scheduler with its handles and delivery tasks, all of them tokio tasks
\* that run when they can; the sleep of a window elapses, and select! picks
\* among its ready branches at random, so that a branch that is ready again
\* and again is taken.
SpecFair ==
    /\ Init
    /\ [][Next]_vars
    /\ WF_vars(ServeSteps)
    /\ WF_vars(DeadlineBranch)
    /\ SF_vars(ReceiveBranch)
    /\ WF_vars(DeliverySteps)
    /\ \A h \in Handles : WF_vars(CallerSteps(h))

====
